---------------------------- MODULE Spec2Model ----------------------------
(***************************************************************************)
(* Tool ordering of the slicer (ToolOrdering.cpp): the layer list of one   *)
(* ToolOrdering, the passes that run over it (reorder_extruders,           *)
(* reorder_extruders_for_minimum_flush_volume, fill_wipe_tower_partitions, *)
(* assign_custom_gcodes) and the filament grouping they call.              *)
(*                                                                         *)
(* Heights (print_z) are integers in units of EPSILON / 2.  An unsigned    *)
(* int of the code is kept as the 32 bit signed integer with the same     *)
(* bits (TLC's integers are 32 bits wide): 0 .. 2^31 - 1 are             *)
(* themselves and -1 is UINT_MAX, the value (unsigned int)-1 and the       *)
(* result of decrementing 0.                                               *)
(***************************************************************************)
EXTENDS Integers, Sequences, FiniteSets, TLC

VARIABLES
    m_layer_tools,          \* ToolOrdering::m_layer_tools, a sequence of LayerTools
    pc,                     \* position in the pass that is running
    config,                 \* the print configuration and the Print's read-only state
    args,                   \* the arguments of the call that is running
    print_filament_maps,    \* Print's stored filament map (1 based), get_filament_maps()
    result,                 \* how reorder_extruders_for_minimum_flush_volume ended
    recommended,            \* what get_recommended_filament_maps returned (<<>>: not called)
    sequencer_maps,         \* the filament map handed to the sequencer (<<>>: not called)
    stats,                  \* m_stats_by_single_extruder / _multi_extruder_auto / _manual
    custom_gcode_per_print_z, \* the static CustomGCode::Info of assign_custom_gcodes
    custom_gcode_it         \* assign_custom_gcodes' reverse iterator, as the index
                            \* into gcodes of the item it points at (0: rend)

vars == <<m_layer_tools, pc, config, args, print_filament_maps, result, recommended,
          sequencer_maps, stats, custom_gcode_per_print_z, custom_gcode_it>>

-----------------------------------------------------------------------------
(* Bounds of the model *)

\* layers of a layer list in the reorder specification
MaxLayers == 2
\* filaments of the configuration in the reorder specification
ReorderFilaments == 2

\* filaments of the configuration in the grouping specification
GroupFilaments == 3

\* whether the unsigned int with the bits of x is at least the size n of a container
PastEnd(x, n) == x < 0 \/ x >= n

\* libslic3r's EPSILON (1e-4 mm), in the model's height unit of EPSILON / 2
EPSILON == 2

-----------------------------------------------------------------------------
(* Sequences *)

Range(s) == {s[i] : i \in DOMAIN s}

Front(s) == s[1]

Back(s) == s[Len(s)]

IsInjective(s) == \A i, j \in DOMAIN s : s[i] = s[j] => i = j

\* the sequences over S without repetition
DistinctSeqs(S) ==
    UNION {{s \in [1..n -> S] : IsInjective(s)} : n \in 0..Cardinality(S)}

\* the permutations of sequence s
PermutationsOf(s) ==
    {t \in [1..Len(s) -> Range(s)] : \A i \in DOMAIN s : \E j \in DOMAIN t : t[j] = s[i]}

Min(S) == CHOOSE x \in S : \A y \in S : x <= y

Max(S) == CHOOSE x \in S : \A y \in S : x >= y

RECURSIVE SortedSeqOf(_)
\* sort_remove_duplicates: the ascending sequence of a set of numbers
SortedSeqOf(S) == IF S = {} THEN <<>> ELSE <<Min(S)>> \o SortedSeqOf(S \ {Min(S)})

\* the first of a set of positions, 0 if there is none
FirstIndex(positions) == IF positions = {} THEN 0 ELSE Min(positions)

-----------------------------------------------------------------------------
(* LayerTools *)

\* a WipingExtrusions as constructed: entity_map maps <<object, region, kind,
\* entity>> to the override of each copy (-1: none), support_map and
\* support_intf_map map an object to an extruder
NoWipingExtrusions ==
    [entity_map |-> <<>>, support_map |-> <<>>, support_intf_map |-> <<>>,
     something_overridden |-> FALSE, something_overridable |-> FALSE]

LayerTools(z, ext, has_obj) ==
    [print_z |-> z, extruders |-> ext, has_object |-> has_obj,
     has_wipe_tower |-> FALSE, wipe_tower_partitions |-> 0,
     wipe_tower_layer_height |-> 0, has_skirt |-> FALSE, custom_gcode |-> 0,
     extruder_override |-> 0, wiping_extrusions |-> NoWipingExtrusions]

\* the extruder lists of all layers (layer_filaments of the flush-volume pass)
LayerFilaments(layers) == [i \in DOMAIN layers |-> layers[i].extruders]

WithExtruders(layers, exts) ==
    [i \in DOMAIN layers |-> [layers[i] EXCEPT !.extruders = exts[i]]]

-----------------------------------------------------------------------------
(* ToolOrdering::reorder_extruders, both overloads: the rotation pass and   *)
(* the reindex loop.  Ids are 1 based here, 0 is the "don't care" extruder. *)

\* memmove(data + 1, data, i * sizeof) and front() = last: position i goes first
MoveToFront(ext, i) ==
    <<ext[i]>> \o SubSeq(ext, 1, i - 1) \o SubSeq(ext, i + 1, Len(ext))

\* "Reorder the extruders to start with the last one": scans positions 1..size-1
StartWithLast(ext, last) ==
    LET i == FirstIndex({k \in DOMAIN ext : k >= 2 /\ ext[k] = last})
    IN  IF i = 0 THEN ext ELSE MoveToFront(ext, i)

\* "On first layer with wipe tower, prefer a soluble extruder at the beginning"
SolubleFirst(ext) ==
    LET i == FirstIndex({k \in DOMAIN ext : (ext[k] - 1) \in config.filament_soluble})
    IN  IF i = 0 THEN ext
        ELSE [ext EXCEPT ![1] = ext[i], ![i] = ext[1]]

\* the "don't care" extruder stays in the list
PopAndRotate_KeepDontCare(ext, last) == StartWithLast(ext, last)

\* the body of the rotation loop for one layer that is not sentinel-only
PopAndRotate(ext, last) ==
    StartWithLast(IF Front(ext) = 0 THEN Tail(ext) ELSE ext, last)

\* one layer of the rotation loop of reorder_extruders(unsigned int)
RotateLayerByFirstExtruder(ext, last, is_first_layer) ==
    IF ext = <<>> THEN ext
    ELSE IF Len(ext) = 1 /\ Front(ext) = 0 THEN <<last>>
    ELSE LET rotated == PopAndRotate(ext, last)
         IN  IF is_first_layer /\ args.ctor = "Print" /\ config.enable_prime_tower
             THEN SolubleFirst(rotated)
             ELSE rotated

\* one layer of the rotation loop of reorder_extruders(std::vector<unsigned int>)
RotateLayerByToolOrder(ext, last) ==
    IF ext = <<>> THEN ext
    ELSE IF Len(ext) = 1 /\ Front(ext) = 0 THEN <<last>>
    ELSE PopAndRotate(ext, last)

RECURSIVE RotateFromFirstExtruder(_, _, _)
\* the rotation loop of reorder_extruders(unsigned int) from layer i on
RotateFromFirstExtruder(exts, i, last) ==
    IF i > Len(exts) THEN exts
    ELSE LET e == RotateLayerByFirstExtruder(exts[i], last, i = 1)
         IN  RotateFromFirstExtruder([exts EXCEPT ![i] = e], i + 1,
                                     IF e = <<>> THEN last ELSE Back(e))

RECURSIVE RotateFromToolOrder(_, _, _)
\* the rotation loop of reorder_extruders(std::vector<unsigned int>) from layer i on
RotateFromToolOrder(exts, i, last) ==
    IF i > Len(exts) THEN exts
    ELSE LET e == RotateLayerByToolOrder(exts[i], last)
         IN  RotateFromToolOrder([exts EXCEPT ![i] = e], i + 1,
                                 IF e = <<>> THEN last ELSE Back(e))

\* "the first non-zero extruder id used for the print" over layers from..size-1, 0 if none
FirstNonZeroExtruder(exts, from) ==
    LET has(i) == \E k \in DOMAIN exts[i] : exts[i][k] # 0
        layers == {i \in from..Len(exts) : has(i)}
    IN  IF layers = {} THEN 0
        ELSE LET ext == exts[Min(layers)]
             IN  ext[FirstIndex({k \in DOMAIN ext : ext[k] # 0})]

\* the first layer as reorder_extruders(tool_order_layer0) rebuilds it
FirstLayerByToolOrder(layer0, tool_order_layer0) ==
    LET ordered == SelectSeq(tool_order_layer0, LAMBDA e : e \in Range(layer0))
        rest    == SelectSeq(layer0, LAMBDA e : e # 0 /\ e \notin Range(tool_order_layer0))
        built   == ordered \o rest
    IN  IF built = <<>> /\ tool_order_layer0 # <<>>
        THEN <<Front(tool_order_layer0)>>
        ELSE built

\* the extruder lists after the rotation pass of reorder_extruders(tool_order_layer0)
RotatedByToolOrder(exts, tool_order_layer0) ==
    LET first == FirstLayerByToolOrder(exts[1], tool_order_layer0)
        exts1 == [exts EXCEPT ![1] = first]
        last  == IF first = <<>> THEN FirstNonZeroExtruder(exts1, 2) ELSE Back(first)
    IN  RotateFromToolOrder(exts1, 2, last)

\* "-- extruder_id" on an unsigned int: 0 becomes UINT_MAX, whose bits are those of -1
Decrement(extruder_id) == extruder_id - 1

\* "Reindex the extruders, so they are zero based, not 1 based."
Reindexed(exts) ==
    [i \in DOMAIN exts |-> [k \in DOMAIN exts[i] |-> Decrement(exts[i][k])]]

-----------------------------------------------------------------------------
(* The configuration as the grouping code reads it.  Filament ids are 0     *)
(* based; a per-filament option is a sequence indexed by id + 1.            *)

\* ConfigOptionVector::get_at: an index past the end reads the first value
GetAt(values, idx) == IF PastEnd(idx, Len(values)) THEN values[1] ELSE values[idx + 1]

\* collect_sorted_used_filaments: the filaments of all layers, ascending
collect_sorted_used_filaments(layer_filaments) ==
    SortedSeqOf(UNION {Range(layer_filaments[i]) : i \in DOMAIN layer_filaments})

get_filament_by_type(used_filaments, type) ==
    {f \in Range(used_filaments) : GetAt(config.filament_type, f) = type}

\* master saved in config is 1 based
MasterExtruderId == config.master_extruder_id - 1

\* the TPU count tested only after the early return for a single extruder
PhysicalUnprintablesThrows_AfterNozzleCheck(used_filaments) ==
    /\ config.nozzle_nums >= 2
    /\ Cardinality(get_filament_by_type(used_filaments, "TPU")) > 1

\* get_physical_unprintables throws "Only supports up to one TPU filament."
PhysicalUnprintablesThrows(used_filaments) ==
    Cardinality(get_filament_by_type(used_filaments, "TPU")) > 1

\* get_physical_unprintables when it returns: per extruder (index e + 1) a set of filaments
get_physical_unprintables(used_filaments) ==
    IF config.nozzle_nums < 2
    THEN [e \in 1..config.nozzle_nums |-> {}]
    ELSE [e \in 1..config.nozzle_nums |->
            (IF e - 1 = 1 - MasterExtruderId
             THEN get_filament_by_type(used_filaments, "TPU") ELSE {})
            \cup {f \in Range(used_filaments) :
                     GetAt(config.required_nozzle_HRC, f) > config.nozzle_hrc[e]}]

\* get_geometrical_unprintables: Print's 1 based ids per extruder, made 0 based
get_geometrical_unprintables(unprintable_arrs) ==
    IF config.nozzle_nums < 2
    THEN [e \in 1..config.nozzle_nums |-> {}]
    ELSE [e \in 1..config.nozzle_nums |->
            IF e <= Len(unprintable_arrs)
            THEN {item - 1 : item \in unprintable_arrs[e]} ELSE {}]

\* the used filaments a 0 based map puts on extruder e, in the order of used_filaments
FilamentsOnExtruder(used_filaments, filament_maps, e) ==
    SelectSeq(used_filaments, LAMBDA f : filament_maps[f + 1] = e)

\* check_tpu_group's test once the loop has met exactly one TPU filament
TpuAloneOnMaster(used_filaments, filament_maps, tpu) ==
    /\ filament_maps[tpu + 1] = MasterExtruderId
    /\ Len(FilamentsOnExtruder(used_filaments, filament_maps, filament_maps[tpu + 1])) <= 1

\* ToolOrdering::check_tpu_group on a 0 based map
check_tpu_group(used_filaments, filament_maps) ==
    LET tpus == get_filament_by_type(used_filaments, "TPU")
    IN  /\ Cardinality(tpus) <= 1
        /\ \A tpu \in tpus : TpuAloneOnMaster(used_filaments, filament_maps, tpu)

RECURSIVE SumSlots(_)
\* group_size[i] += iter->first * iter->second over one extruder's AMS counts
SumSlots(ams_count) ==
    IF ams_count = <<>> THEN 0
    ELSE Front(ams_count)[1] * Front(ams_count)[2] + SumSlots(Tail(ams_count))

\* the default group size of get_recommended_filament_maps
DefaultGroupSize == 16

\* max_group_size of get_recommended_filament_maps, per extruder (index e + 1)
GroupSize ==
    IF config.extruder_ams_count = <<>>
    THEN [e \in 1..2 |-> DefaultGroupSize]
    ELSE [e \in 1..2 |->
            LET size == SumSlots(config.extruder_ams_count[e])
            IN  IF size = 0 THEN 1 ELSE size]

\* the TPU branch without its else: the other filaments keep the initial extruder 0
TpuFilamentMaps_NoElse(tpu_filaments) ==
    [i \in 1..config.filament_nums |->
        IF (i - 1) \in tpu_filaments THEN MasterExtruderId ELSE 0]

\* the branch "speacially handle tpu filaments": TPU on the master, the rest on the other
TpuFilamentMaps(tpu_filaments) ==
    [i \in 1..config.filament_nums |->
        IF (i - 1) \in tpu_filaments THEN MasterExtruderId ELSE 1 - MasterExtruderId]

\* the hard constraints of the filament group optimizer on a 0 based map
SatisfiesGroupConstraints(used_filaments, filament_maps, physical, geometric) ==
    /\ \A e \in 0..1 :
          Len(FilamentsOnExtruder(used_filaments, filament_maps, e)) <= GroupSize[e + 1]
    /\ \A f \in Range(used_filaments) :
          f \notin physical[filament_maps[f + 1] + 1] \cup geometric[filament_maps[f + 1] + 1]

\* FilamentGroup::calc_filament_group and the two tie-break passes after it: some
\* map that satisfies the hard constraints (unused filaments stay on extruder 0)
FilamentGroupMaps(used_filaments, physical, geometric) ==
    {m \in [1..config.filament_nums -> 0..1] :
        /\ \A i \in DOMAIN m : (i - 1) \notin Range(used_filaments) => m[i] = 0
        /\ SatisfiesGroupConstraints(used_filaments, m, physical, geometric)}

\* ToolOrdering::get_recommended_filament_maps: the outcomes it can end with
get_recommended_filament_maps(layer_filaments, physical, geometric) ==
    LET used_filaments == collect_sorted_used_filaments(layer_filaments)
        tpu_filaments  == get_filament_by_type(used_filaments, "TPU")
        groups         == FilamentGroupMaps(used_filaments, physical, geometric)
    IN  IF config.nozzle_nums # 2
        THEN {[error |-> "", maps |-> [i \in 1..config.filament_nums |-> 0]]}
        ELSE IF tpu_filaments # {}
        THEN {[error |-> "", maps |-> TpuFilamentMaps(tpu_filaments)]}
        ELSE IF groups = {}
        THEN {[error |-> "GroupingInfeasible", maps |-> <<>>]}
        ELSE {[error |-> "", maps |-> m] : m \in groups}

-----------------------------------------------------------------------------
(* The per-layer sequencer and the statistics of a sequenced plan.          *)

RECURSIVE LayerSequences(_, _)
\* reorder_filaments_for_minimum_flush_volume: per layer some order of the layer's
\* filaments; get_custom_seq forces the first layer's own order when asked to
LayerSequences(layer_filaments, keep_first_layer) ==
    IF layer_filaments = <<>> THEN {<<>>}
    ELSE {<<first>> \o rest :
            first \in (IF keep_first_layer
                       THEN {Front(layer_filaments)}
                       ELSE PermutationsOf(Front(layer_filaments))),
            rest \in LayerSequences(Tail(layer_filaments), FALSE)}

RECURSIVE Flatten(_)
Flatten(seqs) == IF seqs = <<>> THEN <<>> ELSE Front(seqs) \o Flatten(Tail(seqs))

RECURSIVE CountFilamentChanges(_, _, _)
\* the loop of calc_filament_change_info_by_toolorder over the items of all layers;
\* last_filament_per_extruder starts at -1 for both extruders
CountFilamentChanges(items, filament_map, last_filament_per_extruder) ==
    IF items = <<>> THEN 0
    ELSE LET item          == Front(items)
             extruder_id   == filament_map[item + 1]
             last_filament == last_filament_per_extruder[extruder_id + 1]
         IN  (IF last_filament # -1 /\ last_filament # item THEN 1 ELSE 0)
             + CountFilamentChanges(Tail(items), filament_map,
                   [last_filament_per_extruder EXCEPT ![extruder_id + 1] = item])

\* calc_filament_change_info_by_toolorder: the filament change count of a plan
calc_filament_change_info_by_toolorder(filament_map, layer_sequences) ==
    [assigned |-> TRUE,
     filament_change_count |->
        CountFilamentChanges(Flatten(layer_sequences), filament_map, <<-1, -1>>)]

NoStats == [assigned |-> FALSE, filament_change_count |-> 0]

InitialStats == [single_extruder |-> NoStats, multi_extruder_auto |-> NoStats,
                 multi_extruder_manual |-> NoStats]

-----------------------------------------------------------------------------
(* ToolOrdering::reorder_extruders_for_minimum_flush_volume                 *)

\* how the pass leaves the ToolOrdering and the Print
FlushVolumePassEnds(how, layers, stored_maps, returned_maps, maps_sequenced, new_stats) ==
    /\ pc' = "done"
    /\ result' = how
    /\ m_layer_tools' = layers
    /\ print_filament_maps' = stored_maps
    /\ recommended' = returned_maps
    /\ sequencer_maps' = maps_sequenced
    /\ stats' = new_stats
    /\ UNCHANGED <<config, args, custom_gcode_per_print_z, custom_gcode_it>>

OneBased(filament_maps) == [i \in DOMAIN filament_maps |-> filament_maps[i] + 1]

ZeroBased(filament_maps) == [i \in DOMAIN filament_maps |-> filament_maps[i] - 1]

AllOnExtruder(e) == [i \in 1..config.filament_nums |-> e]

\* the statistics a plan can get: one per order the sequencer can return
PlanStats(filament_maps, layer_filaments) ==
    {calc_filament_change_info_by_toolorder(filament_maps, seqs) :
        seqs \in LayerSequences(layer_filaments, ~args.reorder_first_layer)}

\* a stored map with an entry other than 1 is used as it is
SingleNozzleFilamentMaps_KeepStored ==
    {[error |-> "", maps |-> ZeroBased(print_filament_maps),
      stored |-> print_filament_maps, returned |-> <<>>]}

\* the branch nozzle_nums == 1: a stored map with an entry other than 1 fails
\* assert(false) in a build with assertions, which ends the pass there; a
\* build without them fills the map with ones and writes it back to the Print
SingleNozzleFilamentMaps ==
    LET invalid == \E i \in DOMAIN print_filament_maps : print_filament_maps[i] # 1
    IN  IF invalid
        THEN {[error |-> "AssertionFailed", maps |-> <<>>,
               stored |-> print_filament_maps, returned |-> <<>>],
              [error |-> "", maps |-> ZeroBased(AllOnExtruder(1)),
               stored |-> AllOnExtruder(1), returned |-> <<>>]}
        ELSE {[error |-> "", maps |-> ZeroBased(print_filament_maps),
               stored |-> print_filament_maps, returned |-> <<>>]}

\* the map the sequencer gets, from the nozzle count on: what the map mode decides.
\* [error, maps (0 based), stored (Print's map afterwards), returned]
ResolvedFilamentMaps(layer_filaments, used_filaments, physical, geometric) ==
    IF config.nozzle_nums > 1
    THEN IF config.print_sequence # "ByObject" \/ config.num_objects = 1
         THEN IF config.filament_map_mode = "fmmAuto"
              THEN {[error    |-> IF r.error # "" THEN r.error
                                  ELSE IF check_tpu_group(used_filaments, r.maps) THEN ""
                                  ELSE "AutoGroupingError",
                     maps     |-> r.maps,
                     stored   |-> IF r.error # "" THEN print_filament_maps
                                  ELSE OneBased(r.maps),
                     returned |-> r.maps] :
                    r \in get_recommended_filament_maps(layer_filaments, physical, geometric)}
              ELSE {[error    |-> IF check_tpu_group(used_filaments,
                                                     ZeroBased(print_filament_maps))
                                  THEN "" ELSE "ManualGroupingError",
                     maps     |-> ZeroBased(print_filament_maps),
                     stored   |-> print_filament_maps,
                     returned |-> <<>>]}
         ELSE {[error |-> "", maps |-> ZeroBased(print_filament_maps),
                stored |-> print_filament_maps, returned |-> <<>>]}
    ELSE SingleNozzleFilamentMaps

\* manual mode also plans the automatic grouping, for its statistics: the maps
\* get_recommended_filament_maps can return, each with the statistics it can get
AutoPlans(layer_filaments, physical, geometric) ==
    UNION {IF auto.error # ""
           THEN {[error |-> auto.error, maps |-> <<>>, stats |-> NoStats]}
           ELSE {[error |-> "", maps |-> auto.maps, stats |-> auto_stats] :
                    auto_stats \in PlanStats(auto.maps, layer_filaments)} :
           auto \in get_recommended_filament_maps(layer_filaments, physical, geometric)}

\* from the sequencer call to the end of the pass, with the map resolved
SequenceAndCollect(layer_filaments, physical, geometric, resolved) ==
    LET multi  == config.nozzle_nums > 1
        manual == config.filament_map_mode = "fmmManual"
    IN  \E single \in PlanStats(AllOnExtruder(0), layer_filaments) :
        \E auto \in (IF multi /\ manual
                     THEN AutoPlans(layer_filaments, physical, geometric)
                     ELSE {[error |-> "", maps |-> resolved.returned, stats |-> NoStats]}) :
        \E seqs \in LayerSequences(layer_filaments, ~args.reorder_first_layer) :
            LET curr_flush_info == calc_filament_change_info_by_toolorder(resolved.maps, seqs)
                stats1 == IF ~multi THEN [stats EXCEPT !.single_extruder = curr_flush_info]
                          ELSE IF manual
                               THEN [stats EXCEPT !.multi_extruder_manual = curr_flush_info]
                               ELSE [stats EXCEPT !.multi_extruder_auto = curr_flush_info]
                stats2 == IF multi THEN [stats1 EXCEPT !.single_extruder = single]
                          ELSE stats1
                done   == WithExtruders(m_layer_tools, seqs)
            IN  IF auto.error # ""
                THEN FlushVolumePassEnds(auto.error, m_layer_tools, resolved.stored,
                                         <<>>, resolved.maps, stats2)
                ELSE IF multi /\ manual
                THEN FlushVolumePassEnds("ok", done, resolved.stored, auto.maps,
                        resolved.maps, [stats2 EXCEPT !.multi_extruder_auto = auto.stats])
                ELSE FlushVolumePassEnds("ok", done, resolved.stored, resolved.returned,
                                         resolved.maps, stats2)

reorder_extruders_for_minimum_flush_volume ==
    /\ pc = "reindexed"
    /\ LET layer_filaments == LayerFilaments(m_layer_tools)
           used_filaments  == collect_sorted_used_filaments(layer_filaments)
           geometric == get_geometrical_unprintables(config.unprintable_filament_ids)
           physical  == get_physical_unprintables(used_filaments)
       IN  IF PhysicalUnprintablesThrows(used_filaments)
           THEN FlushVolumePassEnds("OnlyOneTpuError", m_layer_tools, print_filament_maps,
                                    <<>>, <<>>, stats)
           ELSE IF \E f \in Range(used_filaments) : PastEnd(f, config.filament_nums)
           \* a filament id past the maps and matrices is read: undefined behaviour,
           \* whatever order the layers end in
           THEN \E seqs \in LayerSequences(layer_filaments, FALSE) :
                    FlushVolumePassEnds("undefined", WithExtruders(m_layer_tools, seqs),
                                        print_filament_maps, <<>>, <<>>, stats)
           ELSE \E resolved \in ResolvedFilamentMaps(layer_filaments, used_filaments,
                                                     physical, geometric) :
                    IF resolved.error # ""
                    THEN FlushVolumePassEnds(resolved.error, m_layer_tools, resolved.stored,
                                             resolved.returned, <<>>, stats)
                    ELSE SequenceAndCollect(layer_filaments, physical, geometric, resolved)

-----------------------------------------------------------------------------
(* ToolOrdering::reorder_extruders as steps over the layer list *)

\* a CustomGCode::Info without events
NoCustomGCodes == [mode |-> "Undef", gcodes |-> <<>>]

\* the option first_layer_print_sequence when the configuration does not have it
NoPrintSequence == [declared |-> FALSE, values |-> <<>>]

DefaultArgs ==
    [overload |-> "none", ctor |-> "Print", first_extruder |-> -1,
     tool_order_layer0 |-> <<>>, reorder_first_layer |-> TRUE,
     object_bottom_z |-> 0, max_layer_height |-> 0,
     plate_custom_gcodes |-> NoCustomGCodes,
     first_layer_slices |-> <<>>, first_layer_print_sequence |-> NoPrintSequence,
     print_objects |-> <<>>, toolchange |-> 0, old_extruder |-> 0, new_extruder |-> 0,
     volume_to_wipe |-> 0, filament_maps |-> <<>>, zs |-> <<>>, print_z |-> 0,
     earlier |-> [assigned |-> FALSE, layer_tools |-> <<>>, gcodes |-> <<>>],
     epsilon |-> EPSILON]

DefaultConfig(filament_nums) ==
    [filament_nums |-> filament_nums, nozzle_nums |-> 1,
     filament_type |-> [i \in 1..filament_nums |-> "PLA"],
     master_extruder_id |-> 1, extruder_ams_count |-> <<>>,
     nozzle_hrc |-> <<1>>, required_nozzle_HRC |-> [i \in 1..filament_nums |-> 0],
     unprintable_filament_ids |-> <<{}>>,
     filament_map_mode |-> "fmmAuto", print_sequence |-> "ByLayer", num_objects |-> 1,
     enable_prime_tower |-> FALSE, filament_soluble |-> {},
     filament_is_support |-> {}, is_infill_first |-> FALSE,
     timelapse_smooth |-> FALSE, object_extruders |-> 1]

\* the rotation pass of reorder_extruders(unsigned int last_extruder_id)
reorder_extruders_first_extruder ==
    /\ pc = "collected"
    /\ args.overload = "first_extruder"
    /\ LET exts == LayerFilaments(m_layer_tools)
           last_extruder_id ==
               IF args.first_extruder = -1
               THEN FirstNonZeroExtruder(exts, 1)
               ELSE args.first_extruder + 1
       IN  IF last_extruder_id = 0
           THEN \* "Nothing to extrude."
                pc' = "done" /\ UNCHANGED m_layer_tools
           ELSE /\ pc' = "rotated"
                /\ m_layer_tools' = WithExtruders(m_layer_tools,
                                        RotateFromFirstExtruder(exts, 1, last_extruder_id))
    /\ UNCHANGED <<config, args, print_filament_maps, result, recommended, sequencer_maps,
                   stats, custom_gcode_per_print_z, custom_gcode_it>>

\* the rotation pass of reorder_extruders(std::vector<unsigned int> tool_order_layer0)
reorder_extruders_tool_order ==
    /\ pc = "collected"
    /\ args.overload = "tool_order"
    /\ pc' = "rotated"
    /\ m_layer_tools' = WithExtruders(m_layer_tools,
                            RotatedByToolOrder(LayerFilaments(m_layer_tools),
                                               args.tool_order_layer0))
    /\ UNCHANGED <<config, args, print_filament_maps, result, recommended, sequencer_maps,
                   stats, custom_gcode_per_print_z, custom_gcode_it>>

\* the reindex loop of both overloads
reindex_extruders ==
    /\ pc = "rotated"
    /\ pc' = "reindexed"
    /\ m_layer_tools' = WithExtruders(m_layer_tools, Reindexed(LayerFilaments(m_layer_tools)))
    /\ UNCHANGED <<config, args, print_filament_maps, result, recommended, sequencer_maps,
                   stats, custom_gcode_per_print_z, custom_gcode_it>>

\* what collect_extruders leaves on a layer: 1 based ids and the sentinel 0,
\* sorted, without duplicates
CollectedExtruders(filament_nums) == {SortedSeqOf(S) : S \in SUBSET (0..filament_nums)}

\* layer lists as collect_extruders leaves them, print_z ascending
CollectedLayerLists(filament_nums) ==
    UNION {{[i \in 1..n |-> LayerTools(10 * i, exts[i], exts[i] # <<>>)] :
              exts \in [1..n -> CollectedExtruders(filament_nums)]} : n \in 1..MaxLayers}

\* the calls of reorder_extruders the two constructors make
ReorderCalls(filament_nums) ==
    {[DefaultArgs EXCEPT !.overload = "first_extruder", !.ctor = c, !.first_extruder = f,
                         !.reorder_first_layer = TRUE] :
        c \in {"Print", "PrintObject"}, f \in 0..(filament_nums - 1)}
    \cup {[DefaultArgs EXCEPT !.overload = "first_extruder", !.ctor = "Print",
                              !.first_extruder = -1, !.reorder_first_layer = TRUE]}
    \cup {[DefaultArgs EXCEPT !.overload = "tool_order", !.ctor = c, !.tool_order_layer0 = t,
                              !.reorder_first_layer = FALSE] :
            c \in {"Print", "PrintObject"},
            t \in DistinctSeqs(1..filament_nums) \ {<<>>}}
    \cup {[DefaultArgs EXCEPT !.overload = "tool_order", !.ctor = "PrintObject",
                              !.tool_order_layer0 = <<>>, !.reorder_first_layer = FALSE]}

ReorderConfigs ==
    {[DefaultConfig(ReorderFilaments) EXCEPT !.enable_prime_tower = soluble # {},
                                            !.filament_soluble = soluble] :
        soluble \in {{}, {ReorderFilaments - 1}}}

InitReorder ==
    /\ m_layer_tools \in CollectedLayerLists(ReorderFilaments)
    /\ pc = "collected"
    /\ config \in ReorderConfigs
    /\ args \in ReorderCalls(ReorderFilaments)
    /\ print_filament_maps = [i \in 1..ReorderFilaments |-> 1]
    /\ result = "none"
    /\ recommended = <<>>
    /\ sequencer_maps = <<>>
    /\ stats = InitialStats
    /\ custom_gcode_per_print_z = NoCustomGCodes
    /\ custom_gcode_it = 0

NextReorder ==
    \/ reorder_extruders_first_extruder
    \/ reorder_extruders_tool_order
    \/ reindex_extruders
    \/ reorder_extruders_for_minimum_flush_volume

SpecReorder == InitReorder /\ [][NextReorder]_vars

-----------------------------------------------------------------------------
(* ToolOrdering::fill_wipe_tower_partitions, pass by pass.  Ids are 0 based. *)

RECURSIVE CountToolChanges_ForgetOnEmpty(_, _, _)
\* last_extruder forgotten at every layer without extruders
CountToolChanges_ForgetOnEmpty(layers, i, last_extruder) ==
    IF i > Len(layers) THEN layers
    ELSE LET ext == layers[i].extruders
             continues == last_extruder = -1 \/ last_extruder = Front(ext)
             partitions == IF ext = <<>> THEN 0
                           ELSE IF continues THEN Len(ext) - 1 ELSE Len(ext)
         IN  CountToolChanges_ForgetOnEmpty(
                [layers EXCEPT ![i].wipe_tower_partitions = partitions],
                i + 1, IF ext = <<>> THEN -1 ELSE Back(ext))

RECURSIVE CountToolChanges(_, _, _)
\* "Count the minimum number of tool changes per layer" from layer i on;
\* last_extruder is -1 for size_t(-1)
CountToolChanges(layers, i, last_extruder) ==
    IF i > Len(layers) THEN layers
    ELSE LET ext == layers[i].extruders
             continues == last_extruder = -1 \/ last_extruder = Front(ext)
             partitions == IF ext = <<>> THEN 0
                           ELSE IF continues THEN Len(ext) - 1 ELSE Len(ext)
         IN  CountToolChanges([layers EXCEPT ![i].wipe_tower_partitions = partitions],
                              i + 1, IF ext = <<>> THEN last_extruder ELSE Back(ext))

RECURSIVE PropagateDown(_, _)
\* "Propagate the wipe tower partitions down" from layer i (the one below the top) to 1
PropagateDown(layers, i) ==
    IF i < 1 THEN layers
    ELSE PropagateDown(
            [layers EXCEPT ![i].wipe_tower_partitions =
                Max({layers[i + 1].wipe_tower_partitions, layers[i].wipe_tower_partitions})],
            i - 1)

\* lt.print_z < object_bottom_z + EPSILON
BelowObject(lt, object_bottom_z) == lt.print_z < object_bottom_z + EPSILON

\* the has_wipe_tower assignment ("a hack to get the ball rolling")
MarkWipeTowerLayers(layers, print_config, object_bottom_z) ==
    [i \in DOMAIN layers |->
        [layers[i] EXCEPT !.has_wipe_tower =
            \/ layers[i].has_object
               /\ (print_config.timelapse_smooth \/ layers[i].wipe_tower_partitions > 0)
            \/ BelowObject(layers[i], object_bottom_z)]]

InsertAt(s, j, e) == SubSeq(s, 1, j - 1) \o <<e>> \o SubSeq(s, j, Len(s))

\* what front() of a vector yields; of an empty vector the read is undefined: any id
FrontOrUndefined(ext) == IF ext = <<>> THEN {-1, 0, 1} ELSE {Front(ext)}

\* the layer inserted above layers[j] instead of below it
WithExtraLayer_AboveNext(layers, j, z) ==
    {InsertAt(layers, j + 1,
        [LayerTools(z, <<first>>, FALSE) EXCEPT
            !.has_wipe_tower = TRUE,
            !.wipe_tower_partitions = layers[j].wipe_tower_partitions]) :
        first \in FrontOrUndefined(layers[j].extruders)}

\* the layer inserted into the raft gap at position j (the layer above it moves to j + 1)
WithExtraLayer(layers, j, z) ==
    {InsertAt(layers, j,
        [LayerTools(z, <<first>>, FALSE) EXCEPT
            !.has_wipe_tower = TRUE,
            !.wipe_tower_partitions = layers[j].wipe_tower_partitions]) :
        first \in FrontOrUndefined(layers[j].extruders)}

\* the raft test for lt = layers[i], the last raft layer: the layer lists it can leave
FillRaftGap(layers, i, max_layer_height) ==
    LET with_tower == {j \in (i + 1)..Len(layers) : layers[j].has_wipe_tower}
    IN  IF with_tower = {} THEN {layers}
        ELSE LET lt_object == layers[Min(with_tower)]
                 gap == lt_object.print_z - layers[i].print_z
                 mid == (layers[i].print_z + lt_object.print_z) \div 2
                 j   == Min({k \in (i + 1)..Len(layers) : layers[k].print_z >= mid - EPSILON})
                 d   == layers[j].print_z - mid
             IN  IF gap <= max_layer_height + EPSILON THEN {layers}
                 ELSE IF d < EPSILON /\ -d < EPSILON
                 THEN {[layers EXCEPT ![j].has_wipe_tower = TRUE]}
                 ELSE WithExtraLayer(layers, j, mid)

\* "Test for a raft, insert additional wipe tower layer to fill in the raft
\* separation gap": only the first raft-to-object step of the list is treated
RaftGapFilled(layers, object_bottom_z, max_layer_height) ==
    LET steps == {i \in 1..(Len(layers) - 1) :
                    /\ BelowObject(layers[i], object_bottom_z)
                    /\ ~BelowObject(layers[i + 1], object_bottom_z)}
    IN  IF steps = {} THEN {layers} ELSE FillRaftGap(layers, Min(steps), max_layer_height)

RECURSIVE MarkWithinMaxHeight(_, _, _, _)
\* the inner while loop of the ghost layer pass; j is already incremented
MarkWithinMaxHeight(layers, j, last_wipe_tower_print_z, max_layer_height) ==
    IF ~(j < Len(layers) /\ ~layers[j].has_wipe_tower) THEN layers
    ELSE IF layers[j + 1].print_z - last_wipe_tower_print_z > max_layer_height + EPSILON
    THEN MarkWithinMaxHeight([layers EXCEPT ![j].has_wipe_tower = TRUE], j + 1,
                             layers[j].print_z, max_layer_height)
    ELSE MarkWithinMaxHeight(layers, j + 1, last_wipe_tower_print_z, max_layer_height)

RECURSIVE MarkGhostLayers(_, _, _)
\* the pass over the layers that were not marked has_wipe_tower "even when they
\* should have been", from the pair (i, i + 1) on; it stops at the first empty layer
MarkGhostLayers(layers, i, max_layer_height) ==
    IF i + 1 > Len(layers) THEN layers
    ELSE IF layers[i].extruders = <<>> \/ layers[i + 1].extruders = <<>> THEN layers
    ELSE LET next == layers[i + 1]
             mark == /\ ~next.has_wipe_tower
                     /\ \/ Front(next.extruders) # Back(layers[i].extruders)
                        \/ Len(next.extruders) > 1
             marked == IF mark THEN [layers EXCEPT ![i + 1].has_wipe_tower = TRUE]
                       ELSE layers
         IN  MarkGhostLayers(
                MarkWithinMaxHeight(marked, i + 2, next.print_z, max_layer_height),
                i + 1, max_layer_height)

RECURSIVE WipeTowerLayerHeights(_, _, _)
\* "Calculate the wipe_tower_layer_height values."
WipeTowerLayerHeights(layers, i, wipe_tower_print_z_last) ==
    IF i > Len(layers) THEN layers
    ELSE IF layers[i].has_wipe_tower
    THEN WipeTowerLayerHeights(
            [layers EXCEPT ![i].wipe_tower_layer_height =
                layers[i].print_z - wipe_tower_print_z_last],
            i + 1, layers[i].print_z)
    ELSE WipeTowerLayerHeights(layers, i + 1, wipe_tower_print_z_last)

WipeStep(from, to, layers) ==
    /\ pc = from
    /\ pc' = to
    /\ m_layer_tools' = layers
    /\ UNCHANGED <<config, args, print_filament_maps, result, recommended, sequencer_maps,
                   stats, custom_gcode_per_print_z, custom_gcode_it>>

\* "if (m_layer_tools.empty()) return;"
fill_wipe_tower_partitions_empty ==
    /\ m_layer_tools = <<>>
    /\ WipeStep("done", "partitioned", m_layer_tools)

fill_wipe_tower_partitions_count ==
    /\ m_layer_tools # <<>>
    /\ WipeStep("done", "counted", CountToolChanges(m_layer_tools, 1, -1))

fill_wipe_tower_partitions_propagate ==
    WipeStep("counted", "propagated", PropagateDown(m_layer_tools, Len(m_layer_tools) - 1))

fill_wipe_tower_partitions_mark ==
    WipeStep("propagated", "marked",
             MarkWipeTowerLayers(m_layer_tools, config, args.object_bottom_z))

fill_wipe_tower_partitions_raft ==
    \E layers \in RaftGapFilled(m_layer_tools, args.object_bottom_z, args.max_layer_height) :
        WipeStep("marked", "raft_filled", layers)

fill_wipe_tower_partitions_ghost ==
    WipeStep("raft_filled", "partitioned",
             WipeTowerLayerHeights(MarkGhostLayers(m_layer_tools, 1, args.max_layer_height),
                                   1, 0))

-----------------------------------------------------------------------------
(* Claims on reorder_extruders *)

AllExtruderIds == UNION {Range(m_layer_tools[i].extruders) : i \in DOMAIN m_layer_tools}

\* C1: when the reindex loop of reorder_extruders runs, no sentinel 0 is left in
\* any layer (the assert extruder_id > 0 holds for every id), and from the reindex
\* loop on every id of every layer is a zero based id in [0, filament count).
C1_ZeroBasedOutput ==
    /\ pc = "rotated" => \A id \in AllExtruderIds : id > 0
    /\ pc \in {"reindexed", "done"} =>
          \A id \in AllExtruderIds : id \in 0..(config.filament_nums - 1)

-----------------------------------------------------------------------------
(* reorder_extruders_for_minimum_flush_volume on reindexed layer lists, over *)
(* the configurations of the grouping                                        *)

NonEmptySubsets(S) == SUBSET S \ {{}}

\* reindexed layer lists: a first layer with every used filament and, in some, a
\* second layer with one of them
GroupLayerLists(filament_nums) ==
    LET ids == 0..(filament_nums - 1)
    IN  {<<LayerTools(10, SortedSeqOf(U), TRUE)>> : U \in NonEmptySubsets(ids)}
        \cup UNION {{<<LayerTools(10, SortedSeqOf(U), TRUE), LayerTools(20, <<f>>, TRUE)>> :
                        f \in U} : U \in NonEmptySubsets(ids)}

\* the filament types: each of the first two filaments is TPU or not
FilamentTypes(filament_nums) ==
    {[i \in 1..filament_nums |-> IF i \in tpu THEN "TPU" ELSE "PLA"] : tpu \in SUBSET (1..2)}

\* Print's stored maps (1 based)
StoredMaps(filament_nums) == [1..filament_nums -> 1..2]

\* two stored maps: everything on the first extruder; filament 0 on the second
FewStoredMaps(filament_nums) ==
    {[i \in 1..filament_nums |-> 1], [i \in 1..filament_nums |-> IF i = 1 THEN 2 ELSE 1]}

\* AMS counts per extruder as (slots, count) pairs: none configured; one single
\* slot AMS on the first extruder and no AMS on the second
AmsCounts == {<<>>, <<<<<<1, 1>>>>, <<>>>>}

\* nozzle hardness, required hardness and Print's unprintable ids for two nozzles:
\* everything printable; filament 0 too hard for the second nozzle; the last
\* filament outside the first extruder's printable area
Unprintables(filament_nums) ==
    {[nozzle_hrc |-> <<1, 1>>, required |-> [i \in 1..filament_nums |-> 0],
      ids |-> <<{}, {}>>],
     [nozzle_hrc |-> <<1, 0>>,
      required |-> [i \in 1..filament_nums |-> IF i = 1 THEN 1 ELSE 0],
      ids |-> <<{}, {}>>],
     [nozzle_hrc |-> <<1, 1>>, required |-> [i \in 1..filament_nums |-> 0],
      ids |-> <<{filament_nums}, {}>>]}

\* the map mode, the print sequence with the number of objects, and the stored
\* map: the automatic mode by layer never reads the stored map
ModesAndMaps(filament_nums) ==
    {[mode |-> "fmmAuto", print_sequence |-> "ByLayer", num_objects |-> 1,
      stored |-> [i \in 1..filament_nums |-> 1]]}
    \cup {[mode |-> "fmmManual", print_sequence |-> "ByLayer", num_objects |-> 1,
           stored |-> m] : m \in StoredMaps(filament_nums)}
    \cup {[mode |-> mode, print_sequence |-> "ByObject", num_objects |-> 2, stored |-> m] :
            mode \in {"fmmAuto", "fmmManual"}, m \in FewStoredMaps(filament_nums)}

\* a configuration with the Print's stored filament map
SingleNozzleInputs(filament_nums) ==
    {[config |-> [DefaultConfig(filament_nums) EXCEPT !.filament_type = types],
      stored |-> m] :
        types \in FilamentTypes(filament_nums), m \in StoredMaps(filament_nums)}

TwoNozzleInputs(filament_nums) ==
    {[config |-> [DefaultConfig(filament_nums) EXCEPT
                    !.nozzle_nums = 2, !.filament_type = types,
                    !.master_extruder_id = master, !.extruder_ams_count = ams,
                    !.nozzle_hrc = u.nozzle_hrc, !.required_nozzle_HRC = u.required,
                    !.unprintable_filament_ids = u.ids, !.filament_map_mode = mm.mode,
                    !.print_sequence = mm.print_sequence, !.num_objects = mm.num_objects],
      stored |-> mm.stored] :
        types \in FilamentTypes(filament_nums), master \in 1..2, ams \in AmsCounts,
        u \in Unprintables(filament_nums), mm \in ModesAndMaps(filament_nums)}

InitGroup ==
    /\ m_layer_tools \in GroupLayerLists(GroupFilaments)
    /\ pc = "reindexed"
    /\ \E input \in SingleNozzleInputs(GroupFilaments) \cup TwoNozzleInputs(GroupFilaments) :
          /\ config = input.config
          /\ print_filament_maps = input.stored
    \* args.filament_maps: what m_print->get_filament_maps() holds when the pass starts
    /\ args \in {[DefaultArgs EXCEPT !.reorder_first_layer = r,
                                    !.filament_maps = print_filament_maps] : r \in BOOLEAN}
    /\ result = "none"
    /\ recommended = <<>>
    /\ sequencer_maps = <<>>
    /\ stats = InitialStats
    /\ custom_gcode_per_print_z = NoCustomGCodes
    /\ custom_gcode_it = 0

NextGroup == reorder_extruders_for_minimum_flush_volume

SpecGroup == InitGroup /\ [][NextGroup]_vars

-----------------------------------------------------------------------------
(* Claims on the filament grouping *)

UsedFilaments == AllExtruderIds

UsedTpuFilaments == {f \in UsedFilaments : config.filament_type[f + 1] = "TPU"}

\* the used filaments a 0 based map puts on extruder e
UsedOn(filament_maps, e) == {f \in UsedFilaments : filament_maps[f + 1] = e}

\* the map mode is applied and checked: printing by layer, or a single object
MapIsResolvedHere == config.print_sequence # "ByObject" \/ config.num_objects = 1

\* the capacity of extruder e: the sum of its AMS slots, 1 when it has none
CapacityOf(e) ==
    IF config.extruder_ams_count = <<>> THEN DefaultGroupSize
    ELSE IF config.extruder_ams_count[e + 1] = <<>> THEN 1
    ELSE SumSlots(config.extruder_ams_count[e + 1])

\* filament f cannot be printed by extruder e: it is a TPU filament and e is not the
\* master, it needs a harder nozzle than e's, or it is outside e's printable area
UnprintableOn(f, e) ==
    \/ f \in UsedTpuFilaments /\ e # config.master_extruder_id - 1
    \/ config.required_nozzle_HRC[f + 1] > config.nozzle_hrc[e + 1]
    \/ (f + 1) \in config.unprintable_filament_ids[e + 1]

AutoModeWithOneTpu ==
    /\ config.nozzle_nums = 2
    /\ config.filament_map_mode = "fmmAuto"
    /\ MapIsResolvedHere
    /\ Cardinality(UsedTpuFilaments) = 1

\* C2: with two nozzles in automatic mode and exactly one used TPU filament, the map
\* returned by get_recommended_filament_maps puts the TPU filament on the master
\* extruder and no other used filament there, and check_tpu_group accepts it.
C2_TpuAloneOnMaster ==
    (pc = "done" /\ AutoModeWithOneTpu) =>
        /\ recommended # <<>>
        /\ UsedOn(recommended, config.master_extruder_id - 1) = UsedTpuFilaments
        /\ result = "ok"

C2_Witness ==
    /\ pc = "done"
    /\ AutoModeWithOneTpu
    /\ Cardinality(UsedFilaments) >= 2
    /\ result = "ok"

C4_CapacityRespected ==
    (pc = "done" /\ config.nozzle_nums = 2 /\ recommended # <<>>) =>
        \A e \in 0..1 : Cardinality(UsedOn(recommended, e)) <= CapacityOf(e)

\* C5: no map returned by get_recommended_filament_maps assigns a used filament to
\* an extruder whose physical or geometric unprintable set contains it.
C5_NoUnprintableAssignment ==
    (pc = "done" /\ config.nozzle_nums = 2 /\ recommended # <<>>) =>
        \A f \in UsedFilaments : ~UnprintableOn(f, recommended[f + 1])

\* the stored manual map (1 based) breaks a hard grouping constraint
ManualMapViolatesConstraint ==
    LET manual == [i \in DOMAIN print_filament_maps |-> print_filament_maps[i] - 1]
    IN  \/ \E tpu \in UsedTpuFilaments :
              \/ manual[tpu + 1] # config.master_extruder_id - 1
              \/ UsedOn(manual, manual[tpu + 1]) # {tpu}
        \/ \E f \in UsedFilaments : UnprintableOn(f, manual[f + 1])
        \/ \E e \in 0..1 : Cardinality(UsedOn(manual, e)) > CapacityOf(e)

\* C6: in manual mode with two nozzles, a stored map that breaks a hard grouping
\* constraint makes reorder_extruders_for_minimum_flush_volume end with the manual
\* grouping error; no layers are resequenced and no statistics produced from it.
C6_ManualMapRejected ==
    (/\ pc = "done"
     /\ config.nozzle_nums = 2
     /\ config.filament_map_mode = "fmmManual"
     /\ Cardinality(UsedTpuFilaments) <= 1
     /\ ManualMapViolatesConstraint) =>
        /\ result = "ManualGroupingError"
        /\ sequencer_maps = <<>>
        /\ stats = InitialStats

\* the layer lists the whole of fill_wipe_tower_partitions can leave
FillWipeTowerPartitions(layers, print_config, object_bottom_z, max_layer_height) ==
    IF layers = <<>> THEN {layers}
    ELSE LET counted    == CountToolChanges(layers, 1, -1)
             propagated == PropagateDown(counted, Len(counted) - 1)
             marked     == MarkWipeTowerLayers(propagated, print_config, object_bottom_z)
         IN  {WipeTowerLayerHeights(MarkGhostLayers(filled, 1, max_layer_height), 1, 0) :
                 filled \in RaftGapFilled(marked, object_bottom_z, max_layer_height)}

-----------------------------------------------------------------------------
(* ToolOrdering::assign_custom_gcodes.  LayerTools::custom_gcode, a pointer  *)
(* into custom_gcode_per_print_z.gcodes, is the index of the item (0: null). *)

\* the CustomGCode::Mode of the print
PrintMode ==
    IF config.filament_nums = 1 THEN "SingleExtruder"
    ELSE IF config.object_extruders = 1 THEN "MultiAsSingle" ELSE "MultiExtruder"

\* extruder_print_above_by_layer[layer_idx], as the set of the extruders marked
ExtruderPrintingAbove(layers, layer_idx) ==
    UNION {Range(layers[k].extruders) : k \in layer_idx..Len(layers)}

\* the test of the lambda apply_custom_gcode_to_layer
AppliesToLayer(layers, layer_idx, item, model_mode) ==
    LET mode == PrintMode
        color_change == item.type = "ColorChange"
        tool_change  == item.type = "ToolChange"
        pause_or_custom_gcode == ~color_change /\ ~tool_change
        ignore_tool_and_color_changes ==
            (mode = "MultiExtruder") # (model_mode = "MultiExtruder")
        tool_changes_as_color_changes ==
            mode = "SingleExtruder" /\ model_mode = "MultiAsSingle"
        apply_color_change ==
            /\ ~ignore_tool_and_color_changes
            /\ IF color_change
               THEN \/ mode = "SingleExtruder"
                    \/ /\ item.extruder <= config.filament_nums
                       /\ (item.extruder - 1) \in ExtruderPrintingAbove(layers, layer_idx)
               ELSE tool_change /\ tool_changes_as_color_changes
    IN  pause_or_custom_gcode \/ apply_color_change

\* std::upper_bound over print_z: the first layer above z, Len + 1 for end()
UpperBound(layers, z) ==
    Min({k \in 1..Len(layers) : z < layers[k].print_z} \cup {Len(layers) + 1})

Abs(x) == IF x < 0 THEN -x ELSE x

\* the lower layer only when it is nearer than the upper one
LayerForEvent_LowerOnTie(layers, z) ==
    LET upper == UpperBound(layers, z)
    IN  IF upper = 1 THEN 1
        ELSE IF upper = Len(layers) + 1 THEN upper - 1
        ELSE IF Abs(z - layers[upper - 1].print_z) <= Abs(z - layers[upper].print_z)
             THEN upper - 1 ELSE upper

\* the layer the loop body hands to apply_custom_gcode_to_layer
LayerForEvent(layers, z) ==
    LET upper == UpperBound(layers, z)
    IN  IF upper = 1 THEN 1
        ELSE IF upper = Len(layers) + 1 THEN upper - 1
        ELSE IF Abs(z - layers[upper - 1].print_z) < Abs(z - layers[upper].print_z)
             THEN upper - 1 ELSE upper

\* the copy of the plate's events into the static, and the early return
assign_custom_gcodes_begin ==
    /\ pc = "constructed"
    /\ custom_gcode_per_print_z' = args.plate_custom_gcodes
    /\ custom_gcode_it' = Len(args.plate_custom_gcodes.gcodes)
    /\ pc' = IF args.plate_custom_gcodes.gcodes = <<>> THEN "assigned" ELSE "assigning"
    /\ UNCHANGED <<m_layer_tools, config, args, print_filament_maps, result, recommended,
                   sequencer_maps, stats>>

\* one turn of the loop over the events, from the last to the first
assign_custom_gcodes_item ==
    /\ pc = "assigning"
    /\ custom_gcode_it >= 1
    /\ LET item == custom_gcode_per_print_z.gcodes[custom_gcode_it]
           idx  == LayerForEvent(m_layer_tools, item.print_z)
       IN  m_layer_tools' =
               IF /\ item.type # "ToolChange"
                  /\ AppliesToLayer(m_layer_tools, idx, item, custom_gcode_per_print_z.mode)
               THEN [m_layer_tools EXCEPT ![idx].custom_gcode = custom_gcode_it]
               ELSE m_layer_tools
    /\ custom_gcode_it' = custom_gcode_it - 1
    /\ pc' = IF custom_gcode_it = 1 THEN "assigned" ELSE "assigning"
    /\ UNCHANGED <<config, args, print_filament_maps, result, recommended, sequencer_maps,
                   stats, custom_gcode_per_print_z>>

-----------------------------------------------------------------------------
(* fill_wipe_tower_partitions on the layer lists the reordering can leave *)

MaxWipeLayers == 3

\* the zero based extruder lists of a layer after the reordering
WipeExtruderLists == {<<>>, <<0>>, <<1>>, <<0, 1>>, <<1, 0>>}

\* distances between consecutive print_z values: one layer height everywhere,
\* or three layer heights below one of the layers after the first
LayerGaps(n) == {[i \in 1..n |-> IF i = k THEN 30 ELSE 10] : k \in {0} \cup 2..n}

RECURSIVE SumTo(_, _)
SumTo(gaps, i) == IF i = 0 THEN 0 ELSE gaps[i] + SumTo(gaps, i - 1)

\* the layers with the given extruder lists, has_object flags and distances
WipeLayers(exts, objs, gaps) ==
    [i \in DOMAIN exts |-> LayerTools(SumTo(gaps, i), exts[i], objs[i])]

InitWipe ==
    /\ \E n \in 0..MaxWipeLayers :
          \E exts \in [1..n -> WipeExtruderLists], objs \in [1..n -> BOOLEAN],
             gaps \in LayerGaps(n) :
              \* collect_extruders leaves no has_object layer without extruders
              /\ \A i \in 1..n : objs[i] => exts[i] # <<>>
              /\ m_layer_tools = WipeLayers(exts, objs, gaps)
    /\ pc = "done"
    /\ config \in {[DefaultConfig(2) EXCEPT !.timelapse_smooth = smooth] : smooth \in BOOLEAN}
    /\ args \in {[DefaultArgs EXCEPT !.object_bottom_z = bottom, !.max_layer_height = 20] :
                    bottom \in {0, 25}}
    /\ print_filament_maps = <<>>
    /\ result = "ok"
    /\ recommended = <<>>
    /\ sequencer_maps = <<>>
    /\ stats = InitialStats
    /\ custom_gcode_per_print_z = NoCustomGCodes
    /\ custom_gcode_it = 0

NextWipe ==
    \/ fill_wipe_tower_partitions_empty
    \/ fill_wipe_tower_partitions_count
    \/ fill_wipe_tower_partitions_propagate
    \/ fill_wipe_tower_partitions_mark
    \/ fill_wipe_tower_partitions_raft
    \/ fill_wipe_tower_partitions_ghost

SpecWipe == InitWipe /\ [][NextWipe]_vars

-----------------------------------------------------------------------------
(* Claims on fill_wipe_tower_partitions *)

\* the minimum number of tool changes of every layer of the list as it stands
OwnToolChanges == CountToolChanges(m_layer_tools, 1, -1)

\* C7: after fill_wipe_tower_partitions, for every pair of adjacent layers of the
\* final list (a layer inserted into the raft gap included) the lower layer's
\* wipe_tower_partitions is at least the upper layer's and at least the lower
\* layer's own minimum number of tool changes
C7_PartitionsSupportUpperLayers ==
    pc = "partitioned" =>
        \A i \in 1..(Len(m_layer_tools) - 1) :
            /\ m_layer_tools[i].wipe_tower_partitions
                  >= m_layer_tools[i + 1].wipe_tower_partitions
            /\ m_layer_tools[i].wipe_tower_partitions
                  >= OwnToolChanges[i].wipe_tower_partitions

\* C8: after the counting pass a layer's count is its number of extruders less
\* one if the last extruder of the layer immediately below equals its first
\* extruder, and its number of extruders otherwise
C8_CountAgainstPreviousLayer ==
    pc = "counted" =>
        \A i \in 1..Len(m_layer_tools) :
            LET ext == m_layer_tools[i].extruders
                continues == /\ i > 1
                             /\ ext # <<>>
                             /\ m_layer_tools[i - 1].extruders # <<>>
                             /\ Back(m_layer_tools[i - 1].extruders) = Front(ext)
            IN  m_layer_tools[i].wipe_tower_partitions =
                    IF continues THEN Len(ext) - 1 ELSE Len(ext)

\* C8 as the code has it: a layer without extruders counts 0; any other layer
\* counts its number of extruders, less one if no layer below it has extruders or
\* the nearest layer below that has extruders ends with the layer's first extruder
C8_CountAgainstLastExtruder ==
    pc = "counted" =>
        \A i \in 1..Len(m_layer_tools) :
            LET ext == m_layer_tools[i].extruders
                below == {k \in 1..(i - 1) : m_layer_tools[k].extruders # <<>>}
                continues == \/ below = {}
                             \/ Back(m_layer_tools[Max(below)].extruders) = Front(ext)
            IN  m_layer_tools[i].wipe_tower_partitions =
                    IF ext = <<>> THEN 0
                    ELSE IF continues THEN Len(ext) - 1 ELSE Len(ext)

\* a counted list where a layer continues the extruder of a layer two below it,
\* across a layer without extruders, and where a layer starts a new extruder
C8_Witness ==
    /\ pc = "counted"
    /\ Len(m_layer_tools) = 3
    /\ m_layer_tools[1].extruders # <<>>
    /\ m_layer_tools[2].extruders = <<>>
    /\ Len(m_layer_tools[3].extruders) = 2
    /\ Back(m_layer_tools[1].extruders) = Front(m_layer_tools[3].extruders)
    /\ m_layer_tools[3].wipe_tower_partitions = 1

\* C9: after fill_wipe_tower_partitions a layer without extruders and without
\* object geometry, between a layer that ends with one extruder and a layer that
\* starts with another, has has_wipe_tower set
C9_EmptyLayerMarked ==
    pc = "partitioned" =>
        \A n \in 2..(Len(m_layer_tools) - 1) :
            (/\ m_layer_tools[n].extruders = <<>>
             /\ ~m_layer_tools[n].has_object
             /\ m_layer_tools[n - 1].extruders # <<>>
             /\ m_layer_tools[n + 1].extruders # <<>>
             /\ Back(m_layer_tools[n - 1].extruders) # Front(m_layer_tools[n + 1].extruders))
            => m_layer_tools[n].has_wipe_tower

-----------------------------------------------------------------------------
(* assign_custom_gcodes on the layer lists of a constructed ToolOrdering *)

MaxGCodeLayers == 2

MaxEvents == 2

\* heights of events: below the first layer, on it, nearer to it than to the
\* second layer, half way to the second layer, nearer to the second layer,
\* above every layer
EventHeights == {5, 10, 12, 15, 16, 95}

EventKinds ==
    {[type |-> t, extruder |-> 1] : t \in {"PausePrint", "Custom", "ColorChange", "ToolChange"}}
        \cup {[type |-> "ColorChange", extruder |-> 2]}

\* the events of a plate, in the order of their heights
EventLists ==
    UNION {{[i \in 1..n |-> [type |-> kinds[i].type, print_z |-> zs[i],
                             extruder |-> kinds[i].extruder]] :
                kinds \in [1..n -> EventKinds],
                zs \in {z \in [1..n -> EventHeights] :
                            \A i \in 1..(n - 1) : z[i] < z[i + 1]}} :
           n \in 0..MaxEvents}

\* layers one layer height apart, each with at most one of the filaments
GCodeLayerLists(filament_nums) ==
    UNION {{[i \in 1..n |-> LayerTools(10 * i, exts[i], exts[i] # <<>>)] :
                exts \in [1..n -> {<<>>} \cup {<<f>> : f \in 0..(filament_nums - 1)}]} :
           n \in 1..MaxGCodeLayers}

\* number of filaments, number of object extruders and the mode the events
\* were entered in
GCodeModes ==
    {<<1, 1, "SingleExtruder">>, <<1, 1, "MultiAsSingle">>, <<2, 1, "MultiAsSingle">>,
     <<2, 2, "MultiAsSingle">>, <<2, 2, "MultiExtruder">>}

\* the layer lists the constructor leaves for a print without raft
ConstructedLayerLists(print_config, max_layer_height) ==
    UNION {FillWipeTowerPartitions(layers, print_config, 0, max_layer_height) :
              layers \in GCodeLayerLists(print_config.filament_nums)}

InitGCode ==
    /\ \E m \in GCodeModes :
          \E constructed \in
                {ConstructedLayerLists([DefaultConfig(m[1]) EXCEPT !.object_extruders = m[2]], 20)} :
              /\ config = [DefaultConfig(m[1]) EXCEPT !.object_extruders = m[2]]
              /\ \E gcodes \in EventLists :
                    args = [DefaultArgs EXCEPT !.max_layer_height = 20,
                                !.plate_custom_gcodes = [mode |-> m[3], gcodes |-> gcodes]]
              /\ m_layer_tools \in constructed
    /\ pc = "constructed"
    /\ print_filament_maps = <<>>
    /\ result = "ok"
    /\ recommended = <<>>
    /\ sequencer_maps = <<>>
    /\ stats = InitialStats
    /\ custom_gcode_per_print_z = NoCustomGCodes
    /\ custom_gcode_it = 0

NextGCode ==
    \/ assign_custom_gcodes_begin
    \/ assign_custom_gcodes_item

SpecGCode == InitGCode /\ [][NextGCode]_vars

-----------------------------------------------------------------------------
(* Claims on assign_custom_gcodes *)

\* the event the loop of assign_custom_gcodes is at
CurrentEvent == custom_gcode_per_print_z.gcodes[custom_gcode_it]

PauseOrCustom(item) == item.type \notin {"ColorChange", "ToolChange"}

\* layer n is at least as near to height z as every layer, and nearer than
\* every layer above it
NearestLayer(n, z) ==
    \A k \in 1..Len(m_layer_tools) :
        /\ Abs(m_layer_tools[n].print_z - z) <= Abs(m_layer_tools[k].print_z - z)
        /\ k > n => Abs(m_layer_tools[n].print_z - z) < Abs(m_layer_tools[k].print_z - z)

\* C10: every pause or custom G-code event is attached to the layer nearest to
\* its height and to no other: the lowest layer for a height below all layers,
\* the top layer for a height above all layers, the upper layer on a tie
C10_AttachedToNearestLayer ==
    [][(pc = "assigning" /\ PauseOrCustom(CurrentEvent)) =>
          \A n \in 1..Len(m_layer_tools) :
              /\ NearestLayer(n, CurrentEvent.print_z) =>
                    m_layer_tools'[n] = [m_layer_tools[n] EXCEPT !.custom_gcode = custom_gcode_it]
              /\ ~NearestLayer(n, CurrentEvent.print_z) => m_layer_tools'[n] = m_layer_tools[n]
              /\ (\A k \in 1..Len(m_layer_tools) : CurrentEvent.print_z < m_layer_tools[k].print_z)
                    => m_layer_tools'[1].custom_gcode = custom_gcode_it
              /\ (\A k \in 1..Len(m_layer_tools) : CurrentEvent.print_z > m_layer_tools[k].print_z)
                    => m_layer_tools'[Len(m_layer_tools)].custom_gcode = custom_gcode_it]_vars

\* a pause half way between two layers has been attached to the upper one
C10_Witness ==
    /\ pc = "assigned"
    /\ \E n \in 2..Len(m_layer_tools) :
          LET k == m_layer_tools[n].custom_gcode
          IN  /\ k > 0
              /\ PauseOrCustom(custom_gcode_per_print_z.gcodes[k])
              /\ custom_gcode_per_print_z.gcodes[k].print_z - m_layer_tools[n - 1].print_z
                    = m_layer_tools[n].print_z - custom_gcode_per_print_z.gcodes[k].print_z

\* the extruder of the event prints on a layer above the height of the event
PrintsAboveHeight(item) ==
    \E k \in 1..Len(m_layer_tools) :
        /\ m_layer_tools[k].print_z > item.print_z
        /\ (item.extruder - 1) \in Range(m_layer_tools[k].extruders)

\* C11: in a multi-extruder print with events entered in multi-extruder mode, a
\* ColorChange event whose extruder prints on no layer above the height of the
\* event is attached to no layer
C11_ColorChangeDroppedWhenNotPrintingAbove ==
    [][(/\ pc = "assigning"
        /\ PrintMode = "MultiExtruder"
        /\ custom_gcode_per_print_z.mode = "MultiExtruder"
        /\ CurrentEvent.type = "ColorChange"
        /\ ~PrintsAboveHeight(CurrentEvent))
       => m_layer_tools' = m_layer_tools]_vars

-----------------------------------------------------------------------------
(* ToolOrdering::mark_skirt_layers *)

\* the next layer with has_object after layer i, Len + 1 when there is none
NextObjectLayer(layers, i) ==
    Min({j \in (i + 1)..Len(layers) : layers[j].has_object} \cup {Len(layers) + 1})

\* the skip also passes the layers that have a skirt already, down to the first layer
RECURSIVE SkipEmptyDown_PastSkirt(_, _)
SkipEmptyDown_PastSkirt(layers, k) ==
    IF k > 1 /\ (layers[k].extruders = <<>> \/ layers[k].has_skirt)
    THEN SkipEmptyDown_PastSkirt(layers, k - 1) ELSE k

\* while (m_layer_tools[k].extruders.empty()) -- k;
RECURSIVE SkipEmptyDown(_, _)
SkipEmptyDown(layers, k) ==
    IF layers[k].extruders = <<>> THEN SkipEmptyDown(layers, k - 1) ELSE k

\* the loop over the layers k between the object layers i and j, from layer k on
RECURSIVE MarkIntermediateLayers(_, _, _, _, _)
MarkIntermediateLayers(layers, k, j, last_z, max_layer_height) ==
    IF k >= j THEN layers
    ELSE IF layers[k + 1].print_z - last_z > max_layer_height + EPSILON
    THEN LET nonempty == SkipEmptyDown(layers, k)
         IN  IF layers[nonempty].has_skirt THEN layers
             ELSE MarkIntermediateLayers([layers EXCEPT ![nonempty].has_skirt = TRUE],
                                         nonempty + 1, j, layers[nonempty].print_z,
                                         max_layer_height)
    ELSE MarkIntermediateLayers(layers, k + 1, j, last_z, max_layer_height)

\* the loop for (;;) from the object layer i on
RECURSIVE MarkSkirtFrom(_, _, _)
MarkSkirtFrom(layers, i, max_layer_height) ==
    LET marked == [layers EXCEPT ![i].has_skirt = TRUE]
        j      == NextObjectLayer(marked, i)
    IN  IF j = Len(marked) + 1 THEN marked
        ELSE MarkSkirtFrom(
                 MarkIntermediateLayers(marked, i + 1, j, marked[i].print_z, max_layer_height),
                 j, max_layer_height)

\* the marking starts at the first layer with has_object
MarkSkirtLayers_FromFirstObjectLayer(layers, max_layer_height) ==
    IF layers = <<>> THEN layers
    ELSE IF Front(layers).extruders = <<>> THEN layers
    ELSE IF NextObjectLayer(layers, 0) = Len(layers) + 1 THEN layers
    ELSE MarkSkirtFrom(layers, NextObjectLayer(layers, 0), max_layer_height)

MarkSkirtLayers(layers, max_layer_height) ==
    IF layers = <<>> THEN layers
    ELSE IF Front(layers).extruders = <<>> THEN layers
    ELSE MarkSkirtFrom(layers, 1, max_layer_height)

mark_skirt_layers ==
    /\ pc = "partitioned"
    /\ m_layer_tools' = MarkSkirtLayers(m_layer_tools, args.max_layer_height)
    /\ pc' = "skirt_marked"
    /\ UNCHANGED <<config, args, print_filament_maps, result, recommended, sequencer_maps,
                   stats, custom_gcode_per_print_z, custom_gcode_it>>

-----------------------------------------------------------------------------
(* mark_skirt_layers on the layer lists fill_wipe_tower_partitions leaves *)

MaxSkirtLayers == 4

SkirtExtruderLists == {<<>>, <<0>>}

\* layers one or two layer heights apart
SkirtLayerGaps(n) == [1..n -> {10, 20}]

SkirtMaxLayerHeights == {10, 20}

InitSkirt ==
    /\ \E n \in 0..MaxSkirtLayers :
          \E exts \in [1..n -> SkirtExtruderLists], objs \in [1..n -> BOOLEAN],
             gaps \in SkirtLayerGaps(n), max_layer_height \in SkirtMaxLayerHeights :
              \* collect_extruders leaves no has_object layer without extruders
              /\ \A i \in 1..n : objs[i] => exts[i] # <<>>
              /\ config = DefaultConfig(1)
              /\ args = [DefaultArgs EXCEPT !.max_layer_height = max_layer_height]
              /\ m_layer_tools \in FillWipeTowerPartitions(WipeLayers(exts, objs, gaps),
                                        DefaultConfig(1), 0, max_layer_height)
    /\ pc = "partitioned"
    /\ print_filament_maps = <<>>
    /\ result = "ok"
    /\ recommended = <<>>
    /\ sequencer_maps = <<>>
    /\ stats = InitialStats
    /\ custom_gcode_per_print_z = NoCustomGCodes
    /\ custom_gcode_it = 0

NextSkirt == mark_skirt_layers

SpecSkirt == InitSkirt /\ [][NextSkirt]_vars

-----------------------------------------------------------------------------
(* Claims on mark_skirt_layers *)

\* C12: if the first layer has no extruders, mark_skirt_layers marks no layer
\* with has_skirt and raises no error; if the first layer has extruders, the
\* first layer is marked has_skirt
C12_EmptyFirstLayerSkipsSkirt ==
    (pc = "skirt_marked" /\ m_layer_tools # <<>>) =>
        /\ result = "ok"
        /\ IF Front(m_layer_tools).extruders = <<>>
           THEN \A n \in 1..Len(m_layer_tools) : ~m_layer_tools[n].has_skirt
           ELSE Front(m_layer_tools).has_skirt

\* a list with an empty first layer and an object layer above it has been left
\* without skirt
C12_Witness ==
    /\ pc = "skirt_marked"
    /\ Len(m_layer_tools) >= 2
    /\ Front(m_layer_tools).extruders = <<>>
    /\ m_layer_tools[2].has_object
    /\ \A n \in 1..Len(m_layer_tools) : ~m_layer_tools[n].has_skirt

\* the last layer with has_object, 0 when there is none
LastObjectLayer == Max({n \in 1..Len(m_layer_tools) : m_layer_tools[n].has_object} \cup {0})

\* C13: after mark_skirt_layers on a list with a non-empty first layer whose
\* adjacent layers are at most max_layer_height apart, two consecutive
\* has_skirt layers at or below the last object layer are at most
\* max_layer_height + EPSILON apart, also with layers without extrusions
\* between object layers
C13_SkirtLayersWithinMaxHeight ==
    (/\ pc = "skirt_marked"
     /\ m_layer_tools # <<>>
     /\ Front(m_layer_tools).extruders # <<>>
     /\ \A n \in 1..(Len(m_layer_tools) - 1) :
           m_layer_tools[n + 1].print_z - m_layer_tools[n].print_z <= args.max_layer_height)
    => \A a, b \in 1..LastObjectLayer :
           (/\ a < b
            /\ m_layer_tools[a].has_skirt
            /\ m_layer_tools[b].has_skirt
            /\ \A n \in (a + 1)..(b - 1) : ~m_layer_tools[n].has_skirt)
           => m_layer_tools[b].print_z - m_layer_tools[a].print_z
                 <= args.max_layer_height + EPSILON

-----------------------------------------------------------------------------
(* Claims on the rotation pass of reorder_extruders *)

\* the layers below layer n that have extruders in the list exts
NonEmptyBelow(exts, n) == {k \in 1..(n - 1) : exts[k] # <<>>}

-----------------------------------------------------------------------------
(* ToolOrdering::generate_first_layer_tool_order, both overloads.  A slice   *)
(* of the first layer is [extruder_id, contour_area, vanishes]: the          *)
(* wall_filament of its region, the area of its contour, and whether the     *)
(* inwards offset by 0.2 line widths leaves nothing of it.                   *)

\* min_areas_per_extruder: the keys of the map
WallExtruders(slices) ==
    {slices[k].extruder_id : k \in {n \in DOMAIN slices : ~slices[n].vanishes}}

\* min_areas_per_extruder.at(extruder_id)
MinArea(slices, extruder_id) ==
    Min({slices[k].contour_area :
            k \in {n \in DOMAIN slices :
                      ~slices[n].vanishes /\ slices[n].extruder_id = extruder_id}})

\* tool_order.insert(iter, ape.first), iter at the first entry of smaller minimal area
InsertByArea(tool_order, slices, extruder_id) ==
    LET iter == Min({k \in DOMAIN tool_order :
                        MinArea(slices, tool_order[k]) < MinArea(slices, extruder_id)}
                    \cup {Len(tool_order) + 1})
    IN  InsertAt(tool_order, iter, extruder_id)

\* the loop over the map, in the order of its keys, from the keys in todo on
RECURSIVE OrderByArea(_, _, _)
OrderByArea(tool_order, slices, todo) ==
    IF todo = {} THEN tool_order
    ELSE OrderByArea(InsertByArea(tool_order, slices, Min(todo)), slices, todo \ {Min(todo)})

\* std::find(print_sequence_1st.begin(), print_sequence_1st.end(), e): 0 for end()
PositionIn(print_sequence_1st, e) ==
    FirstIndex({k \in DOMAIN print_sequence_1st : print_sequence_1st[k] = e})

\* what std::sort with the comparator of the lambda can leave: with every entry
\* in the sequence the order of the sequence; with an entry that is not, the
\* comparator yields false both ways and any order can come out
SortedBySequence(tool_order, print_sequence_1st) ==
    IF \A e \in Range(tool_order) : PositionIn(print_sequence_1st, e) # 0
    THEN {p \in PermutationsOf(tool_order) :
             \A a, b \in DOMAIN p :
                 a < b => PositionIn(print_sequence_1st, p[a]) < PositionIn(print_sequence_1st, p[b])}
    ELSE PermutationsOf(tool_order)

\* the tool orders generate_first_layer_tool_order can return
FirstLayerToolOrders(slices, print_sequence) ==
    LET tool_order == OrderByArea(<<>>, slices, WallExtruders(slices))
    IN  IF print_sequence.declared /\ Len(print_sequence.values) >= Len(tool_order)
        THEN SortedBySequence(tool_order, print_sequence.values)
        ELSE {tool_order}

generate_first_layer_tool_order ==
    /\ pc = "initialized"
    /\ \E tool_order \in FirstLayerToolOrders(args.first_layer_slices,
                                              args.first_layer_print_sequence) :
          args' = [args EXCEPT !.tool_order_layer0 = tool_order]
    /\ pc' = "first_layer_ordered"
    /\ UNCHANGED <<m_layer_tools, config, print_filament_maps, result, recommended,
                   sequencer_maps, stats, custom_gcode_per_print_z, custom_gcode_it>>

-----------------------------------------------------------------------------
(* generate_first_layer_tool_order on the slices of a first layer *)

MaxSlices == 3

FirstLayerFilaments == 3

ContourAreas == {100, 400, 900}

FirstLayerSlices ==
    UNION {[1..n -> [extruder_id : 1..FirstLayerFilaments, contour_area : ContourAreas,
                     vanishes : BOOLEAN]] : n \in 0..MaxSlices}

\* no option, the default of the option, and a sequence of all filaments
PrintSequences ==
    {NoPrintSequence, [declared |-> TRUE, values |-> <<0>>]}
        \cup {[declared |-> TRUE, values |-> p] :
                 p \in PermutationsOf([i \in 1..FirstLayerFilaments |-> i])}

InitFirstLayer ==
    /\ m_layer_tools = <<>>
    /\ pc = "initialized"
    /\ config = DefaultConfig(FirstLayerFilaments)
    /\ \E slices \in FirstLayerSlices, print_sequence \in PrintSequences, c \in {"Print", "PrintObject"} :
          args = [DefaultArgs EXCEPT !.ctor = c, !.first_layer_slices = slices,
                                     !.first_layer_print_sequence = print_sequence]
    /\ print_filament_maps = <<>>
    /\ result = "none"
    /\ recommended = <<>>
    /\ sequencer_maps = <<>>
    /\ stats = InitialStats
    /\ custom_gcode_per_print_z = NoCustomGCodes
    /\ custom_gcode_it = 0

NextFirstLayer == generate_first_layer_tool_order

SpecFirstLayer == InitFirstLayer /\ [][NextFirstLayer]_vars

-----------------------------------------------------------------------------
(* Claims on generate_first_layer_tool_order *)

\* C15: generate_first_layer_tool_order returns the wall filaments of the first
\* layer in the order of ascending minimal contour area (the filament of the
\* smallest island first), and in the order of first_layer_print_sequence
\* whenever a sequence is declared
C15_SmallestAreaFirstUnlessDeclared ==
    pc = "first_layer_ordered" =>
        LET tool_order == args.tool_order_layer0
            slices     == args.first_layer_slices
            sequence   == args.first_layer_print_sequence
        IN  /\ IsInjective(tool_order)
            /\ Range(tool_order) = WallExtruders(slices)
            /\ \A a, b \in DOMAIN tool_order :
                  a < b =>
                      IF sequence.declared /\ Range(tool_order) \subseteq Range(sequence.values)
                      THEN PositionIn(sequence.values, tool_order[a])
                              < PositionIn(sequence.values, tool_order[b])
                      ELSE MinArea(slices, tool_order[a]) <= MinArea(slices, tool_order[b])

-----------------------------------------------------------------------------
(* WipingExtrusions of one layer.  A PrintObject is a record of its flush    *)
(* settings, its instances and its Layer and SupportLayer at the print_z of  *)
(* the layer; a region holds the filaments of its PrintRegion (1 based) and  *)
(* its fills and perimeters, each an ExtrusionEntityCollection of one role.  *)

is_infill(role) == role \in {"erInternalInfill", "erSolidInfill"}

is_solid_infill(role) == role = "erSolidInfill"

\* an extruder that is not on the layer comes before an absent one
is_extruder_order_AbsentFirst(lt, a, b) ==
    /\ a # b
    /\ LET hit == FirstIndex({k \in DOMAIN lt.extruders : lt.extruders[k] \in {a, b}})
       IN  hit = 0 \/ lt.extruders[hit] = a

\* LayerTools::is_extruder_order
is_extruder_order(lt, a, b) ==
    /\ a # b
    /\ LET hit == FirstIndex({k \in DOMAIN lt.extruders : lt.extruders[k] \in {a, b}})
       IN  hit # 0 /\ lt.extruders[hit] = a

has_extruder(lt, extruder) == extruder \in Range(lt.extruders)

\* LayerTools::wall_filament
wall_filament(lt, region) ==
    (IF lt.extruder_override = 0 THEN region.wall_filament ELSE lt.extruder_override) - 1

\* LayerTools::sparse_infill_filament
sparse_infill_filament(lt, region) ==
    (IF lt.extruder_override = 0 THEN region.sparse_infill_filament
     ELSE lt.extruder_override) - 1

\* LayerTools::extruder: the zero based filament the collection is printed with
extruder(lt, extrusions, region) ==
    LET one_based ==
            IF lt.extruder_override = 0
            THEN IF is_infill(extrusions.role)
                 THEN IF is_solid_infill(extrusions.role)
                      THEN region.solid_infill_filament
                      ELSE region.sparse_infill_filament
                 ELSE region.wall_filament
            ELSE lt.extruder_override
    IN  IF one_based = 0 THEN 0 ELSE one_based - 1

is_overriddable(lt, eec, print_config, object, region) ==
    IF extruder(lt, eec, region) \in print_config.filament_soluble THEN FALSE
    ELSE IF object.flush_into_objects THEN TRUE
    ELSE IF ~object.flush_into_infill \/ eec.role # "erInternalInfill" THEN FALSE
    ELSE TRUE

is_entity_overridden(we, entity, copy) ==
    entity \in DOMAIN we.entity_map /\ we.entity_map[entity][copy] # -1

is_support_overridden(we, object_id) == object_id \in DOMAIN we.support_map

is_support_interface_overridden(we, object_id) == object_id \in DOMAIN we.support_intf_map

\* std::map::emplace: an existing entry stays as it is
Emplace(map, key, value) ==
    IF key \in DOMAIN map THEN map
    ELSE [k \in DOMAIN map \cup {key} |-> IF k = key THEN value ELSE map[k]]

\* copies_vector.resize(num_of_copies, -1)
Resized(copies_vector, num_of_copies) ==
    [c \in 1..num_of_copies |->
        IF c \in DOMAIN copies_vector THEN copies_vector[c] ELSE -1]

set_extruder_override(we, entity, copy, extruder_id, num_of_copies) ==
    LET entity_map    == Emplace(we.entity_map, entity, <<>>)
        copies_vector == Resized(entity_map[entity], num_of_copies)
    IN  [we EXCEPT !.something_overridden = TRUE,
                   !.entity_map = [entity_map EXCEPT
                                      ![entity] = [copies_vector EXCEPT ![copy] = extruder_id]]]

set_support_extruder_override(we, object_id, extruder_id) ==
    [we EXCEPT !.something_overridden = TRUE,
               !.support_map = Emplace(we.support_map, object_id, extruder_id)]

set_support_interface_extruder_override(we, object_id, extruder_id) ==
    [we EXCEPT !.something_overridden = TRUE,
               !.support_intf_map = Emplace(we.support_intf_map, object_id, extruder_id)]

\* first_nonsoluble_extruder_on_layer, -1 when the layer has none
first_nonsoluble_extruder_on_layer(lt, print_config) ==
    LET i == FirstIndex({k \in DOMAIN lt.extruders :
                            /\ lt.extruders[k] \notin print_config.filament_soluble
                            /\ lt.extruders[k] \notin print_config.filament_is_support})
    IN  IF i = 0 THEN -1 ELSE lt.extruders[i]

\* last_nonsoluble_extruder_on_layer, -1 when the layer has none
last_nonsoluble_extruder_on_layer(lt, print_config) ==
    LET found == {k \in DOMAIN lt.extruders :
                     /\ lt.extruders[k] \notin print_config.filament_soluble
                     /\ lt.extruders[k] \notin print_config.filament_is_support}
    IN  IF found = {} THEN -1 ELSE lt.extruders[Max(found)]

-----------------------------------------------------------------------------
(* WipingExtrusions::mark_wiping_extrusions.  The pass threads through its   *)
(* loops the WipingExtrusions we, the volume_to_wipe left, and whether a     *)
(* "return 0.f" was reached.                                                 *)

\* object_list after the std::sort: flush_into_objects first, then by id
SortedObjectList(objects) ==
    SortedSeqOf({o \in DOMAIN objects : objects[o].flush_into_objects})
        \o SortedSeqOf({o \in DOMAIN objects : ~objects[o].flush_into_objects})

\* the objects the loop with perimeters_done visits, with the value of the flag
ObjectVisits(objects) ==
    LET dedicated == SortedSeqOf({o \in DOMAIN objects : objects[o].flush_into_objects})
        all       == SortedObjectList(objects)
    IN  [n \in DOMAIN dedicated |-> [object_id |-> dedicated[n], perimeters_done |-> FALSE]]
            \o [n \in DOMAIN all |-> [object_id |-> all[n], perimeters_done |-> TRUE]]

\* a copy that holds an override is overridden again
WipeInto_OverriddenAgain(st, entity, copy, total_volume, new_extruder, num_of_copies) ==
    IF st.returned \/ ~(total_volume > 0)
    THEN st
    ELSE [we |-> set_extruder_override(st.we, entity, copy, new_extruder, num_of_copies),
          volume_to_wipe |-> st.volume_to_wipe - total_volume,
          returned |-> st.volume_to_wipe - total_volume <= 0]

\* the pass goes on after the volume is used up
WipeInto_NoReturn(st, entity, copy, total_volume, new_extruder, num_of_copies) ==
    IF st.returned \/ is_entity_overridden(st.we, entity, copy) \/ ~(total_volume > 0)
    THEN st
    ELSE [we |-> set_extruder_override(st.we, entity, copy, new_extruder, num_of_copies),
          volume_to_wipe |-> st.volume_to_wipe - total_volume,
          returned |-> FALSE]

\* "this infill will be used to wipe this extruder"
WipeInto(st, entity, copy, total_volume, new_extruder, num_of_copies) ==
    IF st.returned \/ is_entity_overridden(st.we, entity, copy) \/ ~(total_volume > 0)
    THEN st
    ELSE [we |-> set_extruder_override(st.we, entity, copy, new_extruder, num_of_copies),
          volume_to_wipe |-> st.volume_to_wipe - total_volume,
          returned |-> st.volume_to_wipe - total_volume <= 0]

\* the loop over layerm->fills.entities from entity k on
RECURSIVE MarkFills(_, _, _, _, _, _, _, _, _)
MarkFills(st, lt, print_config, object, object_id, copy, r, k, new_extruder) ==
    LET region == object.regions[r]
    IN  IF st.returned \/ k > Len(region.fills) THEN st
        ELSE LET fill == region.fills[k]
                 wipe_into_infill_only ==
                     ~object.flush_into_objects /\ object.flush_into_infill
                 skipped ==
                     \/ ~is_overriddable(lt, fill, print_config, object, region)
                     \/ /\ wipe_into_infill_only
                        /\ ~print_config.is_infill_first
                        /\ ~is_extruder_order(lt, wall_filament(lt, region), new_extruder)
             IN  MarkFills(IF skipped THEN st
                           ELSE WipeInto(st, <<object_id, r, "fill", k>>, copy,
                                         fill.total_volume, new_extruder,
                                         object.num_of_copies),
                           lt, print_config, object, object_id, copy, r, k + 1, new_extruder)

\* the loop over layerm->perimeters.entities from entity k on
RECURSIVE MarkPerimeters(_, _, _, _, _, _, _, _, _)
MarkPerimeters(st, lt, print_config, object, object_id, copy, r, k, new_extruder) ==
    LET region == object.regions[r]
    IN  IF st.returned \/ k > Len(region.perimeters) THEN st
        ELSE LET fill == region.perimeters[k]
             IN  MarkPerimeters(
                     IF is_overriddable(lt, fill, print_config, object, region)
                     THEN WipeInto(st, <<object_id, r, "perimeter", k>>, copy,
                                   fill.total_volume, new_extruder, object.num_of_copies)
                     ELSE st,
                     lt, print_config, object, object_id, copy, r, k + 1, new_extruder)

\* the body of the loop over the regions of this_layer
MarkRegion(st, lt, print_config, object, object_id, copy, r, perimeters_done, new_extruder) ==
    IF /\ ~object.flush_into_infill
       /\ ~object.flush_into_objects
       /\ ~object.flush_into_support
    THEN st
    ELSE LET wipe_into_infill_only ==
                 ~object.flush_into_objects /\ object.flush_into_infill
             is_infill_first == print_config.is_infill_first
             fills_done ==
                 IF is_infill_first # perimeters_done \/ wipe_into_infill_only
                 THEN MarkFills(st, lt, print_config, object, object_id, copy, r, 1,
                                new_extruder)
                 ELSE st
         IN  IF object.flush_into_objects /\ is_infill_first = perimeters_done
             THEN MarkPerimeters(fills_done, lt, print_config, object, object_id, copy, r,
                                 1, new_extruder)
             ELSE fills_done

RECURSIVE MarkRegions(_, _, _, _, _, _, _, _, _)
MarkRegions(st, lt, print_config, object, object_id, copy, r, perimeters_done, new_extruder) ==
    IF st.returned \/ r > Len(object.regions) THEN st
    ELSE MarkRegions(MarkRegion(st, lt, print_config, object, object_id, copy, r,
                                perimeters_done, new_extruder),
                     lt, print_config, object, object_id, copy, r + 1, perimeters_done,
                     new_extruder)

\* the loops "for (const ExtrusionEntity* ee : entities)" of the support block
RECURSIVE SubtractSupport(_, _, _, _)
SubtractSupport(st, entities, k, roles) ==
    IF st.returned \/ k > Len(entities) THEN st
    ELSE LET left == IF entities[k].role \in roles
                     THEN st.volume_to_wipe - entities[k].total_volume
                     ELSE st.volume_to_wipe
         IN  SubtractSupport([st EXCEPT !.volume_to_wipe = left, !.returned = left <= 0],
                             entities, k + 1, roles)

\* the block "do { ... } while (0)" for the support of the object
MarkSupport(st, object, object_id, old_extruder, new_extruder) ==
    LET support_overriddable      == object.support_filament = 0
        support_intf_overriddable == object.support_interface_filament = 0
        body ==
            IF /\ support_overriddable
               /\ ~is_support_overridden(st.we, object_id)
               /\ ~(/\ object.support_interface_not_for_body
                    /\ ~support_intf_overriddable
                    /\ \/ new_extruder = object.support_interface_filament - 1
                       \/ old_extruder = object.support_interface_filament - 1)
            THEN SubtractSupport(
                     [st EXCEPT !.we = set_support_extruder_override(st.we, object_id,
                                                                     new_extruder)],
                     object.support_fills, 1, {"erSupportMaterial", "erSupportTransition"})
            ELSE st
    IN  IF st.returned \/ ~object.flush_into_support \/ ~object.has_support_layer THEN st
        ELSE IF ~support_overriddable /\ ~support_intf_overriddable THEN st
        ELSE IF body.returned THEN body
        ELSE IF support_intf_overriddable /\ ~is_support_interface_overridden(body.we, object_id)
        THEN SubtractSupport(
                 [body EXCEPT !.we = set_support_interface_extruder_override(body.we, object_id,
                                                                             new_extruder)],
                 object.support_fills, 1, {"erSupportMaterialInterface"})
        ELSE body

\* the loop over the copies of the object from copy on
RECURSIVE MarkCopies(_, _, _, _, _, _, _, _, _)
MarkCopies(st, lt, print_config, object, object_id, copy, perimeters_done, old_extruder, new_extruder) ==
    IF st.returned \/ copy > object.num_of_copies THEN st
    ELSE MarkCopies(
             MarkSupport(MarkRegions(st, lt, print_config, object, object_id, copy, 1,
                                     perimeters_done, new_extruder),
                         object, object_id, old_extruder, new_extruder),
             lt, print_config, object, object_id, copy + 1, perimeters_done, old_extruder,
             new_extruder)

\* the loop over object_list from visit n on
RECURSIVE MarkObjects(_, _, _, _, _, _, _)
MarkObjects(st, lt, print_config, objects, n, old_extruder, new_extruder) ==
    IF st.returned \/ n > Len(ObjectVisits(objects)) THEN st
    ELSE LET visit  == ObjectVisits(objects)[n]
             object == objects[visit.object_id]
         IN  MarkObjects(
                 IF ~object.has_layer THEN st
                 ELSE MarkCopies(st, lt, print_config, object, visit.object_id, 1,
                                 visit.perimeters_done, old_extruder, new_extruder),
                 lt, print_config, objects, n + 1, old_extruder, new_extruder)

\* the WipingExtrusions the call leaves and the volume it returns
MarkWipingExtrusions(lt, print_config, objects, old_extruder, new_extruder, volume_to_wipe) ==
    IF \/ ~lt.wiping_extrusions.something_overridable
       \/ volume_to_wipe <= 0
       \/ old_extruder \in print_config.filament_soluble
       \/ new_extruder \in print_config.filament_soluble
    THEN [we |-> lt.wiping_extrusions, returns |-> Max({0, volume_to_wipe})]
    ELSE IF \/ old_extruder \in print_config.filament_is_support
            \/ new_extruder \in print_config.filament_is_support
    THEN [we |-> lt.wiping_extrusions, returns |-> Max({0, volume_to_wipe})]
    ELSE LET st == MarkObjects([we |-> lt.wiping_extrusions,
                                volume_to_wipe |-> volume_to_wipe, returned |-> FALSE],
                               lt, print_config, objects, 1, old_extruder, new_extruder)
         IN  [we |-> st.we, returns |-> IF st.returned THEN 0 ELSE st.volume_to_wipe]

\* the volumes to wipe the caller asks for: none, less than two entities hold,
\* more than the entities of an object hold
WipeVolumes == {0, 15, 70}

\* the call of the caller's loop over the extruders of the layer: the tool
\* change to extruder number toolchange + 1 of the layer
mark_wiping_extrusions ==
    /\ pc = "wiping"
    /\ args.toolchange < Len(m_layer_tools[1].extruders)
    /\ \E old_extruder \in (IF args.toolchange = 0
                            THEN 0..(config.filament_nums - 1)
                            ELSE {m_layer_tools[1].extruders[args.toolchange]}),
          volume_to_wipe \in WipeVolumes :
          LET new_extruder == m_layer_tools[1].extruders[args.toolchange + 1]
              marked == MarkWipingExtrusions(m_layer_tools[1], config, args.print_objects,
                                             old_extruder, new_extruder, volume_to_wipe)
          IN  /\ old_extruder # new_extruder
              /\ m_layer_tools' = [m_layer_tools EXCEPT ![1].wiping_extrusions = marked.we]
              /\ result' = marked.returns
              /\ args' = [args EXCEPT !.toolchange = args.toolchange + 1,
                                      !.old_extruder = old_extruder,
                                      !.new_extruder = new_extruder,
                                      !.volume_to_wipe = volume_to_wipe]
    /\ pc' = "wiping"
    /\ UNCHANGED <<config, print_filament_maps, recommended, sequencer_maps, stats,
                   custom_gcode_per_print_z, custom_gcode_it>>

-----------------------------------------------------------------------------
(* WipingExtrusions::ensure_perimeters_infills_order *)

\* the second argument of is_extruder_order as the call is parenthesised:
\* "last_nonsoluble_extruder || ! lt.has_extruder(...)", a bool taken as an id
OrderArgument(lt, region, last_nonsoluble_extruder) ==
    IF last_nonsoluble_extruder # 0 \/ ~has_extruder(lt, sparse_infill_filament(lt, region))
    THEN 1 ELSE 0

\* the condition under which an infill that was not overridden is forced
ForcedInfill(lt, print_config, region, last_nonsoluble_extruder) ==
    \/ print_config.is_infill_first
    \/ is_extruder_order(lt, wall_filament(lt, region),
                         OrderArgument(lt, region, last_nonsoluble_extruder))

\* the loop over layerm->fills.entities from entity k on
RECURSIVE EnsureFills(_, _, _, _, _, _, _, _)
EnsureFills(we, lt, print_config, object, object_id, copy, r, k) ==
    LET region == object.regions[r]
        first_nonsoluble_extruder == first_nonsoluble_extruder_on_layer(lt, print_config)
        last_nonsoluble_extruder  == last_nonsoluble_extruder_on_layer(lt, print_config)
    IN  IF k > Len(region.fills) THEN we
        ELSE LET fill == region.fills[k]
                 entity == <<object_id, r, "fill", k>>
             IN  EnsureFills(
                     IF \/ ~is_overriddable(lt, fill, print_config, object, region)
                        \/ is_entity_overridden(we, entity, copy)
                     THEN we
                     ELSE IF ForcedInfill(lt, print_config, region, last_nonsoluble_extruder)
                     THEN set_extruder_override(we, entity, copy,
                              IF print_config.is_infill_first THEN first_nonsoluble_extruder
                              ELSE last_nonsoluble_extruder,
                              object.num_of_copies)
                     ELSE we,
                     lt, print_config, object, object_id, copy, r, k + 1)

\* the loop over layerm->perimeters.entities from entity k on
RECURSIVE EnsurePerimeters(_, _, _, _, _, _, _, _)
EnsurePerimeters(we, lt, print_config, object, object_id, copy, r, k) ==
    LET region == object.regions[r]
        first_nonsoluble_extruder == first_nonsoluble_extruder_on_layer(lt, print_config)
        last_nonsoluble_extruder  == last_nonsoluble_extruder_on_layer(lt, print_config)
    IN  IF k > Len(region.perimeters) THEN we
        ELSE LET fill == region.perimeters[k]
                 entity == <<object_id, r, "perimeter", k>>
             IN  EnsurePerimeters(
                     IF /\ is_overriddable(lt, fill, print_config, object, region)
                        /\ ~is_entity_overridden(we, entity, copy)
                     THEN set_extruder_override(we, entity, copy,
                              IF print_config.is_infill_first THEN last_nonsoluble_extruder
                              ELSE first_nonsoluble_extruder,
                              object.num_of_copies)
                     ELSE we,
                     lt, print_config, object, object_id, copy, r, k + 1)

RECURSIVE EnsureRegions(_, _, _, _, _, _, _)
EnsureRegions(we, lt, print_config, object, object_id, copy, r) ==
    IF r > Len(object.regions) THEN we
    ELSE EnsureRegions(
             IF ~object.flush_into_infill /\ ~object.flush_into_objects THEN we
             ELSE EnsurePerimeters(
                      EnsureFills(we, lt, print_config, object, object_id, copy, r, 1),
                      lt, print_config, object, object_id, copy, r, 1),
             lt, print_config, object, object_id, copy, r + 1)

RECURSIVE EnsureCopies(_, _, _, _, _, _)
EnsureCopies(we, lt, print_config, object, object_id, copy) ==
    IF copy > object.num_of_copies THEN we
    ELSE EnsureCopies(EnsureRegions(we, lt, print_config, object, object_id, copy, 1),
                      lt, print_config, object, object_id, copy + 1)

\* the loop over print.objects() from object object_id on
RECURSIVE EnsureObjects(_, _, _, _, _)
EnsureObjects(we, lt, print_config, objects, object_id) ==
    IF object_id > Len(objects) THEN we
    ELSE EnsureObjects(
             IF ~objects[object_id].has_layer THEN we
             ELSE EnsureCopies(we, lt, print_config, objects[object_id], object_id, 1),
             lt, print_config, objects, object_id + 1)

EnsurePerimetersInfillsOrder(lt, print_config, objects) ==
    IF ~lt.wiping_extrusions.something_overridable THEN lt.wiping_extrusions
    ELSE EnsureObjects(lt.wiping_extrusions, lt, print_config, objects, 1)

\* "Called after all toolchanges on a layer were mark_infill_overridden."
ensure_perimeters_infills_order ==
    /\ pc = "wiping"
    /\ args.toolchange = Len(m_layer_tools[1].extruders)
    /\ m_layer_tools' = [m_layer_tools EXCEPT
                            ![1].wiping_extrusions =
                                EnsurePerimetersInfillsOrder(m_layer_tools[1], config,
                                                             args.print_objects)]
    /\ pc' = "ensured"
    /\ UNCHANGED <<config, args, print_filament_maps, result, recommended, sequencer_maps,
                   stats, custom_gcode_per_print_z, custom_gcode_it>>

-----------------------------------------------------------------------------
(* The wiping passes on one layer of a Print, as collect_extruders and the   *)
(* reordering leave it                                                       *)

WipingFilaments == 3

\* WipingExtrusions::is_support_overriddable
is_support_overriddable(role, object) ==
    IF ~object.flush_into_support THEN FALSE
    ELSE IF role = "erMixed"
    THEN object.support_filament = 0 \/ object.support_interface_filament = 0
    ELSE IF role \in {"erSupportMaterial", "erSupportTransition"}
    THEN object.support_filament = 0
    ELSE IF role = "erSupportMaterialInterface"
    THEN object.support_interface_filament = 0
    ELSE FALSE

\* ExtrusionEntityCollection::role of support_fills
SupportRole(support_fills) ==
    IF \E role \in {"erSupportMaterial", "erSupportTransition", "erSupportMaterialInterface"} :
          \A k \in DOMAIN support_fills : support_fills[k].role = role
    THEN support_fills[1].role
    ELSE "erMixed"

\* something_overridable as the calls of is_overriddable_and_mark and
\* is_support_overriddable_and_mark of collect_extruders leave it
SomethingOverridable(lt, print_config, objects) ==
    \E o \in DOMAIN objects :
        \/ /\ objects[o].has_support_layer
           /\ is_support_overriddable(SupportRole(objects[o].support_fills), objects[o])
        \/ /\ objects[o].has_layer
           /\ \E r \in DOMAIN objects[o].regions :
                 LET region == objects[o].regions[r]
                 IN  \E k \in DOMAIN (region.fills \o region.perimeters) :
                         is_overriddable(lt, (region.fills \o region.perimeters)[k],
                                         print_config, objects[o], region)

\* the zero based filaments collect_extruders puts on the layer for the regions
\* and the support of the objects
CollectedFilaments(lt, print_config, objects) ==
    UNION {LET object == objects[o]
           IN  (IF object.has_support_layer
                THEN {object.support_filament - 1 : k \in
                         {n \in DOMAIN object.support_fills :
                             object.support_fills[n].role # "erSupportMaterialInterface"}}
                     \cup {object.support_interface_filament - 1 : k \in
                         {n \in DOMAIN object.support_fills :
                             object.support_fills[n].role = "erSupportMaterialInterface"}}
                ELSE {})
               \cup
               (IF object.has_layer
                THEN UNION {LET region == object.regions[r]
                                fixed(eec) == ~is_overriddable(lt, eec, print_config, object, region)
                            IN  (IF \E k \in DOMAIN region.perimeters : fixed(region.perimeters[k])
                                 THEN {wall_filament(lt, region)} ELSE {})
                                \cup
                                (IF \E k \in DOMAIN region.fills : fixed(region.fills[k])
                                 THEN {extruder(lt, region.fills[k], region) :
                                          k \in DOMAIN region.fills}
                                 ELSE {}) :
                            r \in DOMAIN object.regions}
                ELSE {}) :
           o \in DOMAIN objects} \ {-1}

Fills == {<<[role |-> "erInternalInfill", total_volume |-> 10]>>,
          <<[role |-> "erInternalInfill", total_volume |-> 10],
            [role |-> "erSolidInfill", total_volume |-> 20]>>}

Perimeters == {<<[role |-> "erPerimeter", total_volume |-> 10]>>}

\* wall_filament, sparse_infill_filament and solid_infill_filament of a region
RegionFilaments == {<<1, 1, 1>>, <<2, 2, 2>>, <<1, 2, 3>>, <<3, 1, 1>>}

Regions(filaments, fills) ==
    {[wall_filament |-> f[1], sparse_infill_filament |-> f[2], solid_infill_filament |-> f[3],
      fills |-> fill, perimeters |-> perimeters] :
        f \in filaments, fill \in fills, perimeters \in Perimeters}

\* no support on the layer; support and interface of the automatic filament;
\* support of the automatic filament with an interface pinned to filament 2
Supports ==
    {[flush_into_support |-> FALSE, has_support_layer |-> FALSE, support_fills |-> <<>>,
      support_filament |-> 0, support_interface_filament |-> 0,
      support_interface_not_for_body |-> FALSE]}
    \cup
    {[flush_into_support |-> TRUE, has_support_layer |-> TRUE,
      support_fills |-> <<[role |-> "erSupportMaterial", total_volume |-> 10],
                          [role |-> "erSupportTransition", total_volume |-> 10],
                          [role |-> "erSupportMaterialInterface", total_volume |-> 10]>>,
      support_filament |-> 0, support_interface_filament |-> intf,
      support_interface_not_for_body |-> intf # 0] : intf \in {0, 2}}

PrintObject(flush_into_objects, flush_into_infill, support, num_of_copies, region) ==
    [flush_into_objects |-> flush_into_objects, flush_into_infill |-> flush_into_infill,
     flush_into_support |-> support.flush_into_support,
     support_filament |-> support.support_filament,
     support_interface_filament |-> support.support_interface_filament,
     support_interface_not_for_body |-> support.support_interface_not_for_body,
     has_support_layer |-> support.has_support_layer,
     support_fills |-> support.support_fills,
     num_of_copies |-> num_of_copies, has_layer |-> TRUE, regions |-> <<region>>]

\* the objects of a Print with one object
PrintObjects ==
    {PrintObject(into_objects, into_infill, support, num_of_copies, region) :
        into_objects \in BOOLEAN, into_infill \in BOOLEAN, support \in Supports,
        num_of_copies \in 1..2, region \in Regions(RegionFilaments, Fills)}

\* the objects of a Print with more objects: one instance, no support
PlainPrintObjects ==
    {PrintObject(flags[1], flags[2], CHOOSE support \in Supports : ~support.has_support_layer,
                 1, region) :
        flags \in {<<TRUE, FALSE>>, <<FALSE, TRUE>>, <<FALSE, FALSE>>},
        region \in Regions({<<1, 1, 1>>, <<1, 2, 3>>}, {Fills_ \in Fills : Len(Fills_) = 1})}

MaxObjects == 2

InitWiping ==
    /\ \E soluble \in SUBSET {2}, is_support \in SUBSET {1}, is_infill_first \in BOOLEAN :
          config = [DefaultConfig(WipingFilaments) EXCEPT
                       !.filament_soluble = soluble, !.filament_is_support = is_support,
                       !.is_infill_first = is_infill_first]
    /\ \E objects \in {<<object>> : object \in PrintObjects}
                      \cup UNION {[1..n -> PlainPrintObjects] : n \in 2..MaxObjects} :
          /\ args = [DefaultArgs EXCEPT !.print_objects = objects]
          /\ \E ext \in DistinctSeqs(0..(WipingFilaments - 1)) \ {<<>>} :
                LET lt == [LayerTools(10, ext, TRUE) EXCEPT !.has_wipe_tower = TRUE]
                    collected == CollectedFilaments(lt, config, objects)
                IN  \* the filaments collected, in the order the reordering chose; for a
                    \* layer with none the extruder the layer below ended with
                    /\ IF collected = {} THEN Len(ext) = 1 ELSE Range(ext) = collected
                    /\ m_layer_tools =
                          <<[lt EXCEPT !.wiping_extrusions.something_overridable =
                                           SomethingOverridable(lt, config, objects)]>>
    /\ pc = "wiping"
    /\ print_filament_maps = <<>>
    /\ result = "none"
    /\ recommended = <<>>
    /\ sequencer_maps = <<>>
    /\ stats = InitialStats
    /\ custom_gcode_per_print_z = NoCustomGCodes
    /\ custom_gcode_it = 0

NextWiping ==
    \/ mark_wiping_extrusions
    \/ ensure_perimeters_infills_order

SpecWiping == InitWiping /\ [][NextWiping]_vars

-----------------------------------------------------------------------------
(* Claims on the wiping passes *)

\* the collection the key <<object, region, kind, entity>> of entity_map names
EntityOf(objects, entity) ==
    LET region == objects[entity[1]].regions[entity[2]]
    IN  IF entity[3] = "fill" THEN region.fills[entity[4]] ELSE region.perimeters[entity[4]]

\* the keys of all infill and perimeter collections of the objects on the layer
Entities(objects) ==
    UNION {UNION {{<<o, r, "fill", k>> : k \in DOMAIN objects[o].regions[r].fills}
                  \cup {<<o, r, "perimeter", k>> : k \in DOMAIN objects[o].regions[r].perimeters} :
                  r \in DOMAIN objects[o].regions} :
           o \in {n \in DOMAIN objects : objects[n].has_layer}}

\* the override of the copy of the entity, -1 when it has none
OverrideOf(we, entity, copy) ==
    IF is_entity_overridden(we, entity, copy) THEN we.entity_map[entity][copy] ELSE -1

\* the layer the wiping passes work on, its WipingExtrusions and the objects
WipingLayer == m_layer_tools[1]

\* the zero based filament the entity is assigned to
AssignedFilament(entity) ==
    extruder(WipingLayer, EntityOf(args.print_objects, entity),
             args.print_objects[entity[1]].regions[entity[2]])

\* C17: no extrusion whose assigned filament is soluble or is a support filament
\* has an extruder override, after mark_wiping_extrusions and after
\* ensure_perimeters_infills_order, whatever the flush settings of its object
C17_NoOverrideOfSolubleOrSupport ==
    pc \in {"wiping", "ensured"} =>
        \A entity \in Entities(args.print_objects) :
            \A copy \in 1..args.print_objects[entity[1]].num_of_copies :
                AssignedFilament(entity) \in config.filament_soluble \cup config.filament_is_support
                    => OverrideOf(WipingLayer.wiping_extrusions, entity, copy) = -1

\* the extruders of the layer that are neither soluble nor support filaments
NonSolubleOnLayer ==
    Range(WipingLayer.extruders) \ (config.filament_soluble \cup config.filament_is_support)

\* C16: after ensure_perimeters_infills_order every infill or perimeter copy
\* that is overridable, in an object that opted in, and that
\* mark_wiping_extrusions did not override, has an override, and the override is
\* the first or the last extruder of the layer that is neither soluble nor a
\* support filament
C16_OverridableForcedOntoLayerExtruder ==
    [][(pc = "wiping" /\ pc' = "ensured") =>
          \A entity \in Entities(args.print_objects) :
              LET object == args.print_objects[entity[1]]
                  region == object.regions[entity[2]]
              IN  \A copy \in 1..object.num_of_copies :
                      (/\ object.flush_into_objects \/ object.flush_into_infill
                       /\ is_overriddable(WipingLayer, EntityOf(args.print_objects, entity),
                                          config, object, region)
                       /\ OverrideOf(WipingLayer.wiping_extrusions, entity, copy) = -1)
                      => LET forced == OverrideOf(m_layer_tools'[1].wiping_extrusions, entity, copy)
                         IN  /\ forced # -1
                             /\ forced \in NonSolubleOnLayer
                             /\ forced \in {first_nonsoluble_extruder_on_layer(WipingLayer, config),
                                            last_nonsoluble_extruder_on_layer(WipingLayer, config)}]_vars

\* the sum of the second components of the pairs in S
RECURSIVE SumOfVolumes(_)
SumOfVolumes(S) ==
    IF S = {} THEN 0
    ELSE LET pair == CHOOSE p \in S : TRUE
         IN  pair[2] + SumOfVolumes(S \ {pair})

\* the volume of the support extrusions of the object with one of the roles
SupportVolume(object, roles) ==
    SumOfVolumes({<<k, object.support_fills[k].total_volume>> :
                     k \in {n \in DOMAIN object.support_fills :
                               object.support_fills[n].role \in roles}})

\* the copies of infill and perimeter collections overridden in we_after and
\* not in we_before, each with its volume
OverriddenEntities(we_before, we_after, objects) ==
    UNION {{<<<<entity, copy>>, EntityOf(objects, entity).total_volume>> :
               copy \in {c \in 1..objects[entity[1]].num_of_copies :
                            /\ OverrideOf(we_after, entity, c) # -1
                            /\ OverrideOf(we_before, entity, c) = -1}} :
           entity \in Entities(objects)}

\* the objects whose support, and whose support interface, is overridden in
\* we_after and not in we_before, each with the volume of those extrusions
OverriddenSupports(we_before, we_after, objects) ==
    {<<<<o, "support">>,
       SupportVolume(objects[o], {"erSupportMaterial", "erSupportTransition"})>> :
        o \in DOMAIN we_after.support_map \ DOMAIN we_before.support_map}
    \cup
    {<<<<o, "support_interface">>,
       SupportVolume(objects[o], {"erSupportMaterialInterface"})>> :
        o \in DOMAIN we_after.support_intf_map \ DOMAIN we_before.support_intf_map}

\* C18: mark_wiping_extrusions(old, new, volume) returns max(0, volume - the
\* volume of the extrusions it overrode in the call); it stops overriding once
\* that volume reaches the requested one and then returns 0; it never returns a
\* negative value; with a soluble or support filament as old or new it
\* overrides nothing and returns max(0, volume)
C18_ReturnsVolumeLeft ==
    [][(pc = "wiping" /\ pc' = "wiping") =>
          LET we_before == m_layer_tools[1].wiping_extrusions
              we_after  == m_layer_tools'[1].wiping_extrusions
              volume    == args'.volume_to_wipe
              entities  == OverriddenEntities(we_before, we_after, args.print_objects)
              supports  == OverriddenSupports(we_before, we_after, args.print_objects)
              overridden == SumOfVolumes(entities) + SumOfVolumes(supports)
          IN  /\ result' = Max({0, volume - overridden})
              /\ result' >= 0
              /\ (overridden > 0 /\ overridden >= volume) =>
                     \/ \E last \in entities : overridden - last[2] < volume
                     \/ \E last \in supports : overridden - last[2] < volume
              /\ ({args'.old_extruder, args'.new_extruder}
                      \cap (config.filament_soluble \cup config.filament_is_support) # {})
                     => we_after = we_before /\ result' = Max({0, volume})]_vars

\* a tool change of the layer asked for a volume of 15, the call has
\* overridden a collection with the new extruder and has returned 0
C18_Witness ==
    /\ pc = "wiping"
    /\ args.toolchange >= 1
    /\ args.volume_to_wipe = 15
    /\ result = 0
    /\ \E entity \in DOMAIN WipingLayer.wiping_extrusions.entity_map :
          OverrideOf(WipingLayer.wiping_extrusions, entity, 1) = args.new_extruder

-----------------------------------------------------------------------------
(* Claim on the single nozzle branch of the flush volume pass *)

-----------------------------------------------------------------------------
(* ToolOrdering::initialize_layers and ToolOrdering::tools_for_layer         *)
(* The heights of this section are whole numbers of an eighth of EPSILON;    *)
(* the heights collected from the layers are even, so that the average of    *)
(* two of them is a whole number.                                            *)

\* EPSILON in eighths of EPSILON
EpsilonInEighths == 4 * EPSILON

\* the loop "for (; j < zs.size() && zs[j] <= zmax; ++ j)": the first j past i
\* that is the size of zs or whose height is above zmax (j counts from 1)
RECURSIVE LastWithin(_, _, _)
LastWithin(zs, j, zmax) ==
    IF j <= Len(zs) /\ zs[j] <= zmax THEN LastWithin(zs, j + 1, zmax) ELSE j

\* the runs [i, j) of the sorted heights that the merging loop makes from i on:
\* for each the first and the last height
RECURSIVE MergedRuns(_, _, _)
MergedRuns(zs, i, epsilon) ==
    IF i > Len(zs) THEN <<>>
    ELSE LET j == LastWithin(zs, i + 1, zs[i] + epsilon)
         IN  <<[first |-> zs[i], last |-> zs[j - 1]]>> \o MergedRuns(zs, j, epsilon)

\* the LayerTools initialize_layers makes of the heights zs; epsilon is
\* EPSILON in the unit of the heights
InitializeLayers(zs, epsilon) ==
    LET runs == MergedRuns(SortedSeqOf(Range(zs)), 1, epsilon)
    IN  [k \in DOMAIN runs |-> LayerTools((runs[k].first + runs[k].last) \div 2, <<>>, FALSE)]

initialize_layers ==
    /\ pc = "heights_collected"
    /\ m_layer_tools' = InitializeLayers(args.zs, args.epsilon)
    /\ args' = [args EXCEPT !.zs = SortedSeqOf(Range(args.zs))]
    /\ pc' = "layers_initialized"
    /\ UNCHANGED <<config, print_filament_maps, result, recommended, sequencer_maps, stats,
                   custom_gcode_per_print_z, custom_gcode_it>>

\* std::lower_bound with LayerTools::operator<: the first record whose print_z
\* is not below z, Len(layers) + 1 for end()
LowerBound(layers, z) ==
    LET found == {k \in DOMAIN layers : ~(layers[k].print_z < z)}
    IN  IF found = {} THEN Len(layers) + 1 ELSE Min(found)

\* the loop of tools_for_layer with the iterator at record k: where it breaks
\* or ends, and the distance it has then
RECURSIVE NearestFrom(_, _, _, _)
NearestFrom(layers, print_z, k, dist_min) ==
    IF k > Len(layers) THEN [it |-> k, dist_min |-> dist_min]
    ELSE LET d == Abs(layers[k].print_z - print_z)
         IN  IF d >= dist_min THEN [it |-> k, dist_min |-> dist_min]
             ELSE NearestFrom(layers, print_z, k + 1, d)

\* tools_for_layer(print_z): the record it returns and dist_min; both asserts
\* hold for a height that initialize_layers was given
ToolsForLayer(layers, print_z, epsilon) ==
    LET it_layer_tools == LowerBound(layers, print_z - epsilon)
        stopped == NearestFrom(layers, print_z, it_layer_tools + 1,
                               Abs(layers[it_layer_tools].print_z - print_z))
    IN  [index |-> stopped.it - 1, dist_min |-> stopped.dist_min]

\* the callers look up the print_z of a layer the heights were collected from
tools_for_layer ==
    /\ pc \in {"layers_initialized", "partitioned", "layer_found"}
    /\ \E print_z \in Range(args.zs) :
          /\ LowerBound(m_layer_tools, print_z - args.epsilon) <= Len(m_layer_tools)
          /\ result' = ToolsForLayer(m_layer_tools, print_z, args.epsilon)
          /\ args' = [args EXCEPT !.print_z = print_z]
    /\ pc' = "layer_found"
    /\ UNCHANGED <<m_layer_tools, config, print_filament_maps, recommended, sequencer_maps,
                   stats, custom_gcode_per_print_z, custom_gcode_it>>

\* the number of heights a ToolOrdering collects
MaxHeights == 3

\* the heights reach up to MaxHeightSteps quarters of EPSILON
MaxHeightSteps == 10

\* the print_z of object and support layers, on a grid of a quarter of EPSILON
CollectedHeights == {2 * k : k \in 0..MaxHeightSteps}

InitLayers ==
    /\ m_layer_tools = <<>>
    /\ pc = "heights_collected"
    /\ config = DefaultConfig(1)
    /\ \E n \in 1..MaxHeights : \E zs \in [1..n -> CollectedHeights] :
          args = [DefaultArgs EXCEPT !.zs = zs, !.epsilon = EpsilonInEighths]
    /\ print_filament_maps = <<>>
    /\ result = "none"
    /\ recommended = <<>>
    /\ sequencer_maps = <<>>
    /\ stats = InitialStats
    /\ custom_gcode_per_print_z = NoCustomGCodes
    /\ custom_gcode_it = 0

NextLayers ==
    \/ initialize_layers
    \/ tools_for_layer

SpecLayers == InitLayers /\ [][NextLayers]_vars

\* the record the height z was merged into
MergedInto(zs, z) ==
    LET runs == MergedRuns(SortedSeqOf(Range(zs)), 1, EpsilonInEighths)
    IN  CHOOSE k \in DOMAIN runs : runs[k].first <= z /\ z <= runs[k].last

\* the records whose print_z is less than EPSILON away from z
RecordsNear(layers, z) ==
    {k \in DOMAIN layers : Abs(layers[k].print_z - z) < EpsilonInEighths}

\* C20: after initialize_layers no two records have print_z less than EPSILON
\* apart, every height given is less than EPSILON away from exactly one record,
\* the one it was merged into, and tools_for_layer returns that record for
\* every height given
C20_RecordsApartAndLookupFindsMerged ==
    pc \in {"layers_initialized", "layer_found"} =>
        /\ \A k, l \in DOMAIN m_layer_tools :
              k # l => Abs(m_layer_tools[k].print_z - m_layer_tools[l].print_z)
                          >= EpsilonInEighths
        /\ \A z \in Range(args.zs) :
              RecordsNear(m_layer_tools, z) = {MergedInto(args.zs, z)}
        /\ pc = "layer_found" => result.index = MergedInto(args.zs, args.print_z)

-----------------------------------------------------------------------------
(* Claim on get_physical_unprintables with a single extruder *)

\* C21: with a single extruder get_physical_unprintables returns, with no
\* unprintable filament for the extruder, whatever filaments are used and
\* whatever their types are, so the pass never ends with its exception
C21_SingleExtruderReturnsEmpty ==
    [][(pc = "reindexed" /\ pc' = "done" /\ config.nozzle_nums = 1) =>
          LET used_filaments == collect_sorted_used_filaments(LayerFilaments(m_layer_tools))
          IN  /\ ~PhysicalUnprintablesThrows(used_filaments)
              /\ get_physical_unprintables(used_filaments) = <<{}>>
              /\ result' # "OnlyOneTpuError"]_vars

-----------------------------------------------------------------------------
(* Further claims on assign_custom_gcodes *)

\* the events other than tool changes that the loop hands to layer n and that
\* pass the test of apply_custom_gcode_to_layer there
AppliedTo(n) ==
    {k \in DOMAIN custom_gcode_per_print_z.gcodes :
        LET item == custom_gcode_per_print_z.gcodes[k]
        IN  /\ item.type # "ToolChange"
            /\ LayerForEvent(m_layer_tools, item.print_z) = n
            /\ AppliesToLayer(m_layer_tools, n, item, custom_gcode_per_print_z.mode)}

\* C22: when several applicable events map to one layer, the layer's
\* custom_gcode ends as the last of them, the one with the greatest print_z
C22_LastEventOfLayerWins ==
    pc = "assigned" =>
        \A n \in 1..Len(m_layer_tools) :
            Cardinality(AppliedTo(n)) >= 2 => m_layer_tools[n].custom_gcode = Max(AppliedTo(n))

\* C23: with a single filament and events entered in MultiAsSingle mode, a
\* ToolChange event is attached to the layer nearest to its height
C23_ToolChangeAttachedAsColorChange ==
    [][(/\ pc = "assigning"
        /\ PrintMode = "SingleExtruder"
        /\ custom_gcode_per_print_z.mode = "MultiAsSingle"
        /\ CurrentEvent.type = "ToolChange")
       => m_layer_tools'[LayerForEvent(m_layer_tools, CurrentEvent.print_z)].custom_gcode
              = custom_gcode_it]_vars

-----------------------------------------------------------------------------
(* Further claims on the wiping passes *)

\* C24: over the calls of mark_wiping_extrusions for the tool changes of a
\* layer and the call of ensure_perimeters_infills_order after them, a copy of
\* an extrusion that holds an override is not overridden again: it keeps the
\* extruder of its first override
C24_OverriddenAtMostOnce ==
    [][\A entity \in Entities(args.print_objects) :
          \A copy \in 1..args.print_objects[entity[1]].num_of_copies :
              LET before == OverrideOf(m_layer_tools[1].wiping_extrusions, entity, copy)
              IN  before # -1 =>
                      OverrideOf(m_layer_tools'[1].wiping_extrusions, entity, copy) = before]_vars

\* the call for the second tool change of a layer has overridden a copy with
\* its extruder while a copy overridden at the first tool change holds the
\* first extruder
C24_Witness ==
    /\ pc = "wiping"
    /\ args.toolchange = 2
    /\ \E e1, e2 \in Entities(args.print_objects) :
          \E c1 \in 1..args.print_objects[e1[1]].num_of_copies,
             c2 \in 1..args.print_objects[e2[1]].num_of_copies :
              /\ OverrideOf(WipingLayer.wiping_extrusions, e1, c1) = WipingLayer.extruders[1]
              /\ OverrideOf(WipingLayer.wiping_extrusions, e2, c2) = WipingLayer.extruders[2]

\* a differs from b, a is on the layer, and b is absent from the layer or
\* occurs after a
PrecedesOnLayer(lt, a, b) ==
    /\ a # b
    /\ \E i \in DOMAIN lt.extruders :
          /\ lt.extruders[i] = a
          /\ \A j \in DOMAIN lt.extruders : lt.extruders[j] = b => i < j

\* is_extruder_order(a, b) is true exactly when a precedes b on the layer
ExtruderOrderIsPrecedence ==
    \A a, b \in 0..(config.filament_nums - 1) :
        is_extruder_order(WipingLayer, a, b) <=> PrecedesOnLayer(WipingLayer, a, b)

\* the infill collections the step has overridden, in the objects of the set
InfillsOverriddenIn(objects) ==
    {entity \in Entities(args.print_objects) :
        /\ entity[3] = "fill"
        /\ entity[1] \in objects
        /\ \E copy \in 1..args.print_objects[entity[1]].num_of_copies :
              /\ OverrideOf(m_layer_tools[1].wiping_extrusions, entity, copy) = -1
              /\ OverrideOf(m_layer_tools'[1].wiping_extrusions, entity, copy) # -1}

\* C25 as claimed: when printing is not infill-first, mark_wiping_extrusions
\* overrides an infill, of any object, only if the wall filament of its region
\* precedes the new extruder on the layer; is_extruder_order is that precedence
C25_InfillAfterPerimeterExtruder ==
    [][(pc = "wiping" /\ pc' = "wiping" /\ ~config.is_infill_first) =>
          /\ ExtruderOrderIsPrecedence
          /\ \A entity \in InfillsOverriddenIn(DOMAIN args.print_objects) :
                PrecedesOnLayer(WipingLayer,
                    wall_filament(WipingLayer, args.print_objects[entity[1]].regions[entity[2]]),
                    args'.new_extruder)]_vars

\* C25 amended: when printing is not infill-first, mark_wiping_extrusions
\* overrides an infill of an object that flushes into its infill only
\* (flush_into_infill without flush_into_objects) only if the wall filament of
\* its region precedes the new extruder on the layer; is_extruder_order is that
\* precedence
C25_InfillOnlyAfterPerimeterExtruder ==
    [][(pc = "wiping" /\ pc' = "wiping" /\ ~config.is_infill_first) =>
          /\ ExtruderOrderIsPrecedence
          /\ \A entity \in InfillsOverriddenIn({o \in DOMAIN args.print_objects :
                                                  ~args.print_objects[o].flush_into_objects}) :
                PrecedesOnLayer(WipingLayer,
                    wall_filament(WipingLayer, args.print_objects[entity[1]].regions[entity[2]]),
                    args'.new_extruder)]_vars

\* not infill-first: an infill of an object that flushes into its infill only
\* holds the extruder of the last tool change, which the wall filament precedes
C25_Witness ==
    /\ pc = "wiping"
    /\ ~config.is_infill_first
    /\ args.toolchange >= 1
    /\ \E entity \in Entities(args.print_objects) :
          LET object == args.print_objects[entity[1]]
          IN  /\ entity[3] = "fill"
              /\ ~object.flush_into_objects /\ object.flush_into_infill
              /\ OverrideOf(WipingLayer.wiping_extrusions, entity, 1) = args.new_extruder
              /\ PrecedesOnLayer(WipingLayer, wall_filament(WipingLayer, object.regions[entity[2]]),
                                 args.new_extruder)

-----------------------------------------------------------------------------
(* Further claims on fill_wipe_tower_partitions *)

\* the last raft layer: the first layer below the object with the layer above
\* it not below the object, 0 when there is none
LastRaftLayer ==
    FirstIndex({i \in 1..(Len(m_layer_tools) - 1) :
                   /\ BelowObject(m_layer_tools[i], args.object_bottom_z)
                   /\ ~BelowObject(m_layer_tools[i + 1], args.object_bottom_z)})

\* the first layer with has_wipe_tower above the last raft layer, 0 when none
FirstTowerLayerAboveRaft ==
    FirstIndex({j \in (LastRaftLayer + 1)..Len(m_layer_tools) : m_layer_tools[j].has_wipe_tower})

\* C26: when the gap between the last raft layer and the first wipe tower layer
\* above it exceeds max_layer_height, the raft pass marks a layer at their mid
\* height or inserts one there; when it inserts a layer, the layers below and
\* above the new layer have extruders, and the new layer has has_wipe_tower,
\* exactly one extruder, the first of the layer above it, and that layer's
\* wipe_tower_partitions
C26_RaftGapLayerBetweenNonEmptyLayers ==
    [][(/\ pc = "marked" /\ pc' = "raft_filled"
        /\ LastRaftLayer # 0
        /\ FirstTowerLayerAboveRaft # 0
        /\ m_layer_tools[FirstTowerLayerAboveRaft].print_z - m_layer_tools[LastRaftLayer].print_z
              > args.max_layer_height + EPSILON)
       => LET mid == (m_layer_tools[LastRaftLayer].print_z
                        + m_layer_tools[FirstTowerLayerAboveRaft].print_z) \div 2
              after == m_layer_tools'
          IN  \/ /\ Len(after) = Len(m_layer_tools)
                 /\ \E j \in DOMAIN after :
                       /\ Abs(after[j].print_z - mid) < EPSILON
                       /\ after[j].has_wipe_tower
                       /\ after = [m_layer_tools EXCEPT ![j].has_wipe_tower = TRUE]
              \/ /\ Len(after) = Len(m_layer_tools) + 1
                 /\ \E j \in 2..Len(m_layer_tools) :
                       /\ after = InsertAt(m_layer_tools, j, after[j])
                       /\ after[j].print_z = mid
                       /\ after[j].has_wipe_tower
                       /\ after[j - 1].extruders # <<>>
                       /\ after[j + 1].extruders # <<>>
                       /\ after[j].extruders = <<Front(after[j + 1].extruders)>>
                       /\ after[j].wipe_tower_partitions = after[j + 1].wipe_tower_partitions]_vars

\* C27: after fill_wipe_tower_partitions every layer after the first that has
\* extruders and that starts with another extruder than the layer below it
\* ended with, or has more than one extruder, has has_wipe_tower, wherever the
\* list has layers without extruders
C27_ToolChangeLayersHaveWipeTower ==
    pc = "partitioned" =>
        \A i \in 2..Len(m_layer_tools) :
            LET ext   == m_layer_tools[i].extruders
                below == m_layer_tools[i - 1].extruders
            IN  (/\ ext # <<>>
                 /\ \/ Len(ext) > 1
                    \/ below # <<>> /\ Front(ext) # Back(below))
                => m_layer_tools[i].has_wipe_tower

-----------------------------------------------------------------------------
(* assign_custom_gcodes of two ToolOrdering instances, one after the other.  *)
(* custom_gcode_per_print_z is one static of the file: both instances assign *)
(* to it.  args.earlier holds the m_layer_tools of the first instance, whose *)
(* custom_gcode pointers are kept, and the events they pointed to.           *)

\* the events of a plate: pauses and custom G-code on the first layer and
\* nearer to the second layer
PlateEventLists ==
    {gcodes \in EventLists :
        \A i \in DOMAIN gcodes : /\ gcodes[i].type \in {"PausePrint", "Custom"}
                                 /\ gcodes[i].print_z \in {10, 16}}

\* a ToolOrdering is constructed for another plate after the first one has its
\* events assigned; the first instance stays alive
next_tool_ordering ==
    /\ pc = "assigned"
    /\ ~args.earlier.assigned
    /\ \E layers \in ConstructedLayerLists(config, args.max_layer_height),
          gcodes \in PlateEventLists :
          /\ m_layer_tools' = layers
          /\ args' = [args EXCEPT
                        !.earlier = [assigned |-> TRUE, layer_tools |-> m_layer_tools,
                                     gcodes |-> custom_gcode_per_print_z.gcodes],
                        !.plate_custom_gcodes = [mode |-> "SingleExtruder", gcodes |-> gcodes]]
    /\ pc' = "constructed"
    /\ UNCHANGED <<config, print_filament_maps, result, recommended, sequencer_maps, stats,
                   custom_gcode_per_print_z, custom_gcode_it>>

InitPlates ==
    /\ config = DefaultConfig(1)
    /\ m_layer_tools \in ConstructedLayerLists(DefaultConfig(1), 20)
    /\ \E gcodes \in PlateEventLists :
          args = [DefaultArgs EXCEPT !.max_layer_height = 20,
                      !.plate_custom_gcodes = [mode |-> "SingleExtruder", gcodes |-> gcodes]]
    /\ pc = "constructed"
    /\ print_filament_maps = <<>>
    /\ result = "ok"
    /\ recommended = <<>>
    /\ sequencer_maps = <<>>
    /\ stats = InitialStats
    /\ custom_gcode_per_print_z = NoCustomGCodes
    /\ custom_gcode_it = 0

NextPlates ==
    \/ assign_custom_gcodes_begin
    \/ assign_custom_gcodes_item
    \/ next_tool_ordering

SpecPlates == InitPlates /\ [][NextPlates]_vars

\* C28: the event a layer of the first ToolOrdering was given by its
\* assign_custom_gcodes is still the event its custom_gcode designates while
\* and after assign_custom_gcodes runs for the second ToolOrdering
C28_EarlierLayersKeepTheirEvents ==
    args.earlier.assigned =>
        \A n \in DOMAIN args.earlier.layer_tools :
            LET k == args.earlier.layer_tools[n].custom_gcode
            IN  k # 0 => /\ k <= Len(custom_gcode_per_print_z.gcodes)
                         /\ custom_gcode_per_print_z.gcodes[k] = args.earlier.gcodes[k]


\* --------------------------------------------------------------------------
\* The constructor from a Print: initialize_layers, the extruders of the
\* layers, fill_wipe_tower_partitions, and the lookups of the callers
\* --------------------------------------------------------------------------

\* the print_z of object and support layers, in halves of EPSILON
PrintHeights == {9, 10, 11, 20, 30, 50}

\* the heights whose merged averages are whole and of one parity, so that the
\* averages of initialize_layers and the mid height of the raft pass are exact
ExactHeights(zs) ==
    LET runs == MergedRuns(SortedSeqOf(Range(zs)), 1, EPSILON)
    IN  /\ \A k \in DOMAIN runs : (runs[k].first + runs[k].last) % 2 = 0
        /\ \A k, l \in DOMAIN runs :
              ((runs[k].first + runs[k].last) \div 2) % 2
                  = ((runs[l].first + runs[l].last) \div 2) % 2

\* collect_extruders for every object, then reorder_extruders: each layer has
\* its extruder list, and has_object where an object layer gave extruders
collect_and_reorder_extruders ==
    /\ pc = "layers_initialized"
    /\ \E exts \in [DOMAIN m_layer_tools -> WipeExtruderLists],
          objs \in [DOMAIN m_layer_tools -> BOOLEAN] :
          /\ \A i \in DOMAIN m_layer_tools : objs[i] => exts[i] # <<>>
          /\ m_layer_tools' = [i \in DOMAIN m_layer_tools |->
                                  [m_layer_tools[i] EXCEPT !.extruders = exts[i],
                                                           !.has_object = objs[i]]]
    /\ pc' = "done"
    /\ UNCHANGED <<config, args, print_filament_maps, result, recommended, sequencer_maps,
                   stats, custom_gcode_per_print_z, custom_gcode_it>>

InitConstructor ==
    /\ m_layer_tools = <<>>
    /\ pc = "heights_collected"
    /\ config = DefaultConfig(2)
    /\ \E n \in 0..MaxHeights : \E zs \in [1..n -> PrintHeights] :
          /\ ExactHeights(zs)
          /\ args \in {[DefaultArgs EXCEPT !.zs = zs, !.object_bottom_z = bottom,
                                           !.max_layer_height = 20] : bottom \in {0, 25}}
    /\ print_filament_maps = <<>>
    /\ result = "none"
    /\ recommended = <<>>
    /\ sequencer_maps = <<>>
    /\ stats = InitialStats
    /\ custom_gcode_per_print_z = NoCustomGCodes
    /\ custom_gcode_it = 0

NextConstructor ==
    \/ initialize_layers
    \/ collect_and_reorder_extruders
    \/ fill_wipe_tower_partitions_empty
    \/ fill_wipe_tower_partitions_count
    \/ fill_wipe_tower_partitions_propagate
    \/ fill_wipe_tower_partitions_mark
    \/ fill_wipe_tower_partitions_raft
    \/ fill_wipe_tower_partitions_ghost
    \/ tools_for_layer

SpecConstructor == InitConstructor /\ [][NextConstructor]_vars

StrictlyIncreasing(layers) ==
    \A k \in 1..(Len(layers) - 1) : layers[k].print_z < layers[k + 1].print_z

PrintZs(layers) == [k \in DOMAIN layers |-> layers[k].print_z]

\* s with one element inserted somewhere
OneInserted(s) == {InsertAt(s, j, z) : j \in 1..(Len(s) + 1), z \in 0..Max(PrintHeights)}

RECURSIVE IntermediateHistory(_, _, _, _, _, _)
IntermediateHistory(h, k, j, last_z, marked, max_layer_height) ==
    IF k >= j THEN h
    ELSE LET layers == h.layers
             read   == [h EXCEPT !.reads = @ \cup {k + 1}, !.iterations = @ + 1]
         IN  IF k + 1 \in DOMAIN layers
                /\ layers[k + 1].print_z - last_z > max_layer_height + EPSILON
             THEN LET to      == SkipEmptyDown(layers, k)
                      skipped == [read EXCEPT !.skips = @ \cup
                                    {[from |-> k, to |-> to, marked |-> marked]}]
                  IN  IF layers[to].has_skirt THEN skipped
                      ELSE IntermediateHistory(
                               [skipped EXCEPT !.layers[to].has_skirt = TRUE],
                               to + 1, j, layers[to].print_z, to, max_layer_height)
             ELSE IntermediateHistory(read, k + 1, j, last_z, marked, max_layer_height)

\* the loop of MarkSkirtFrom with its history
RECURSIVE SkirtHistoryFrom(_, _, _)
SkirtHistoryFrom(h, i, max_layer_height) ==
    LET marked == [h EXCEPT !.layers[i].has_skirt = TRUE]
        j      == NextObjectLayer(marked.layers, i)
    IN  IF j = Len(marked.layers) + 1 THEN marked
        ELSE SkirtHistoryFrom(
                 IntermediateHistory(marked, i + 1, j, marked.layers[i].print_z, i,
                                     max_layer_height),
                 j, max_layer_height)

\* the history of mark_skirt_layers on a list with a non-empty first layer
SkirtHistory(layers, max_layer_height) ==
    SkirtHistoryFrom([layers |-> layers, skips |-> {}, reads |-> {}, iterations |-> 0],
                     1, max_layer_height)

\* C30: on a layer list in which every has_object layer has extruders,
\* mark_skirt_layers ends after at most two iterations of the inner loop per
\* layer, reads no layer outside the list, and every downward skip over the
\* layers without extruders stops inside the list, at or above the skirt layer
\* marked last
C30_SkipStopsAtLastSkirtLayer ==
    [][(/\ pc = "partitioned" /\ pc' = "skirt_marked"
        /\ m_layer_tools # <<>> /\ Front(m_layer_tools).extruders # <<>>
        /\ \A n \in DOMAIN m_layer_tools :
              m_layer_tools[n].has_object => m_layer_tools[n].extruders # <<>>) =>
           LET h == SkirtHistory(m_layer_tools, args.max_layer_height)
           IN  /\ m_layer_tools' = h.layers
               /\ h.reads \subseteq DOMAIN m_layer_tools
               /\ h.iterations <= 2 * Len(m_layer_tools)
               /\ \A s \in h.skips :
                     /\ s.to \in DOMAIN m_layer_tools
                     /\ s.marked <= s.to
                     /\ s.to <= s.from]_vars

\* the layers before mark_skirt_layers marked them
Unmarked(layers) == [n \in DOMAIN layers |-> [layers[n] EXCEPT !.has_skirt = FALSE]]

\* a skip went down over a layer without extruders and stopped above the skirt
\* layer marked last, and another one stopped at it
C30_Witness ==
    /\ pc = "skirt_marked"
    /\ m_layer_tools # <<>>
    /\ Front(m_layer_tools).extruders # <<>>
    /\ LET h == SkirtHistory(Unmarked(m_layer_tools), args.max_layer_height)
       IN  /\ \E s \in h.skips : s.marked < s.to /\ s.to < s.from
           /\ \E s \in h.skips : s.marked = s.to /\ s.to < s.from

=============================================================================
